---------------------------- MODULE Spec2Model ----------------------------
(***************************************************************************)
(* A model of the ecmascript_toy compiler: the tokenizer (tokenizer.rs),   *)
(* the parser (parser.rs), the                                             *)
(* frame-stack tree (frame_stack.rs), the two-pass variable analyzer       *)
(* (var_analyzer.rs), the assembler (assembler.rs) and the code generator  *)
(* (compiler.rs).  Indices in the Rust code are 0-based; sequences here    *)
(* are 1-based, so element i of a Vec is At(v, i) == v[i + 1].             *)
(***************************************************************************)
EXTENDS Integers, Sequences, FiniteSets, TLC

VARIABLES
  fstack,     \* FrameStackTree: [frames, links, cur_frame, next_frame]
  drv,        \* the driver of the frame-stack traversal protocol; under
              \* SpecTok the Tokenizer
  tokens,     \* the token list handed to Parser::new
  ast,        \* the Node returned by Parser::parse
  phase,      \* position of the pipeline
  asm,        \* Assembler: [file, pos, sp, labels]; <<>> before Compiler::new
  hist        \* history of observations the properties refer to

vars == <<fstack, drv, tokens, ast, phase, asm, hist>>

-----------------------------------------------------------------------------
(* Vec helpers *)

At(v, i) == v[i + 1]

Last(v) == v[Len(v)]

Front(v) == SubSeq(v, 1, Len(v) - 1)

SetAt(v, i, x) == [v EXCEPT ![i + 1] = x]

\* Vec::insert(i, x)
Insert(v, i, x) == SubSeq(v, 1, i) \o <<x>> \o SubSeq(v, i + 1, Len(v))

\* iter().position(|e| e == x): the first 0-based index holding x, or -1
Position(v, x) ==
  IF \E i \in 1..Len(v) : v[i] = x
    THEN (CHOOSE i \in 1..Len(v) : v[i] = x /\ \A j \in 1..(i - 1) : v[j] # x) - 1
    ELSE -1

Contains(v, x) == \E i \in 1..Len(v) : v[i] = x

-----------------------------------------------------------------------------
(* frame_stack.rs *)

THIS == <<"t", "h", "i", "s">>

\* Frame::new
Frame_new == [var_offsets |-> <<THIS>>]

\* FrameStackTree::new
FrameStackTree_new ==
  [frames     |-> <<Frame_new>>,
   links      |-> <<[children |-> <<>>, parent |-> 0]>>,
   cur_frame  |-> 0,
   next_frame |-> 1]

\* children.get(i).unwrap_or(&0)
GetOr0(children, i) == IF i < Len(children) THEN At(children, i) ELSE 0

reset(t) == [t EXCEPT !.cur_frame = 0, !.next_frame = 1]

\* enter indexes links[next_frame]: out of range is a panic
enter_ok(t) == t.next_frame < Len(t.links)

enter(t) ==
  [t EXCEPT !.cur_frame  = t.next_frame,
            !.next_frame = GetOr0(At(t.links, t.next_frame).children, 0)]

\* exit unwraps the position of the cursor among its parent's children
exit_ok(t) ==
  Position(At(t.links, At(t.links, t.cur_frame).parent).children, t.cur_frame) >= 0

\* exit as it would be with the "+ 1" of the next sibling forgotten
exit_same_sibling(t) ==
  LET parent == At(t.links, t.cur_frame).parent
      next   == Position(At(t.links, parent).children, t.cur_frame)
  IN  [t EXCEPT !.next_frame = GetOr0(At(t.links, parent).children, next),
                !.cur_frame  = parent]

exit(t) ==
  LET parent == At(t.links, t.cur_frame).parent
      next   == Position(At(t.links, parent).children, t.cur_frame) + 1
  IN  [t EXCEPT !.next_frame = GetOr0(At(t.links, parent).children, next),
                !.cur_frame  = parent]

\* an add_child that puts the new frame before its siblings
add_child_first(t) ==
  LET new == Len(t.links)
  IN  [t EXCEPT
         !.frames = Append(t.frames, Frame_new),
         !.links  = SetAt(Append(t.links, [children |-> <<>>, parent |-> t.cur_frame]),
                          t.cur_frame,
                          [children |-> <<new>> \o At(t.links, t.cur_frame).children,
                           parent   |-> At(t.links, t.cur_frame).parent]),
         !.next_frame = new]

add_child(t) ==
  LET new == Len(t.links)
  IN  [t EXCEPT
         !.frames = Append(t.frames, Frame_new),
         !.links  = SetAt(Append(t.links, [children |-> <<>>, parent |-> t.cur_frame]),
                          t.cur_frame,
                          [children |-> Append(At(t.links, t.cur_frame).children, new),
                           parent   |-> At(t.links, t.cur_frame).parent]),
         !.next_frame = new]

RECURSIVE parents_from(_, _)
parents_from(t, cur) ==
  LET parent == At(t.links, cur).parent
  IN  IF parent = cur THEN <<>> ELSE <<parent>> \o parents_from(t, parent)

\* parents without the root
parents_inner(t) ==
  SubSeq(parents_from(t, t.cur_frame), 1, Len(parents_from(t, t.cur_frame)) - 1)

parents(t) == parents_from(t, t.cur_frame)

NoVar == [found |-> FALSE, frame_offset |-> 0, var_offset |-> 0, frame_id |-> 0]

RECURSIVE find_var_from(_, _, _, _)
find_var_from(t, name, frame, frame_offset) ==
  LET var_offset == Position(At(t.frames, frame).var_offsets, name)
      is_root    == At(t.links, frame).parent = frame
  IN  IF var_offset >= 0
        THEN [found |-> TRUE, frame_offset |-> frame_offset,
              var_offset |-> var_offset, frame_id |-> frame]
        ELSE IF is_root THEN NoVar
        ELSE find_var_from(t, name, At(t.links, frame).parent, frame_offset + 1)

\* a find_var that looks in the frame of the cursor alone
find_var_here(t, name) ==
  IF Position(At(t.frames, t.cur_frame).var_offsets, name) >= 0
    THEN [found |-> TRUE, frame_offset |-> 0,
          var_offset |-> Position(At(t.frames, t.cur_frame).var_offsets, name),
          frame_id |-> t.cur_frame]
    ELSE NoVar

find_var(t, name) == find_var_from(t, name, t.cur_frame, 0)

\* a put that appends the name whether or not the frame holds it
put_var_in_always(t, f, name) ==
  [t EXCEPT !.frames = SetAt(t.frames, f,
                             [var_offsets |-> Append(At(t.frames, f).var_offsets, name)])]

\* the body shared by put_var and put_var_global, on frame f
put_var_in(t, f, name) ==
  LET offsets == At(t.frames, f).var_offsets
      index   == Len(offsets)
  IN  IF ~Contains(offsets, name)
        THEN [t EXCEPT !.frames = SetAt(t.frames, f,
                                        [var_offsets |-> Insert(offsets, index, name)])]
        ELSE t

\* a put_var that puts the name in frame 0
put_var_root(t, name) == put_var_in(t, 0, name)

put_var(t, name) == put_var_in(t, t.cur_frame, name)

\* put_var_global that puts the name in the frame of the cursor
put_var_global_here(t, name) == put_var(t, name)

put_var_global(t, name) == put_var_in(t, 0, name)

-----------------------------------------------------------------------------
(* The traversal protocol of the frame-stack tree, as test_frame_stack and  *)
(* the analyzer drive it: a first pass of nested groups                     *)
(* add_child; enter; ...; exit, then reset, then the same calls again       *)
(* without the add_child.                                                   *)

MaxFrames == 5

DrvInit ==
  [pc |-> "first", ops |-> <<>>, pos |-> 0, depth |-> 0,
   visit1 |-> <<>>, visit2 |-> <<>>]

IsCall(op) == op # "add_child"

ReplayOps == SelectSeq(drv.ops, IsCall)

IdleRest ==
  /\ tokens = <<>>
  /\ ast = [type_ |-> [tag |-> "Empty"], body |-> <<>>]
  /\ phase = "idle"
  /\ asm = <<>>
  /\ hist = <<>>

InitFS ==
  /\ fstack = FrameStackTree_new
  /\ drv = DrvInit
  /\ IdleRest

RestFS == UNCHANGED <<tokens, ast, phase, asm, hist>>

\* first pass: LocalPass::enter_fun calls add_child and then enter
FS_add_child ==
  /\ drv.pc = "first"
  /\ Len(fstack.links) < MaxFrames
  /\ fstack' = add_child(fstack)
  /\ drv' = [drv EXCEPT !.pc = "entering", !.ops = Append(@, "add_child")]
  /\ RestFS

FS_enter ==
  /\ drv.pc = "entering"
  /\ fstack' = enter(fstack)
  /\ drv' = [drv EXCEPT !.pc = "first", !.ops = Append(@, "enter"),
                        !.depth = @ + 1,
                        !.visit1 = Append(@, fstack'.cur_frame)]
  /\ RestFS

\* first pass: LocalPass::exit_fun
FS_exit ==
  /\ drv.pc = "first"
  /\ drv.depth > 0
  /\ fstack' = exit(fstack)
  /\ drv' = [drv EXCEPT !.ops = Append(@, "exit"), !.depth = @ - 1,
                        !.visit1 = Append(@, fstack'.cur_frame)]
  /\ RestFS

\* build_frame_stack resets once the visit is back at the root
FS_reset ==
  /\ drv.pc = "first"
  /\ drv.depth = 0
  /\ fstack' = reset(fstack)
  /\ drv' = [drv EXCEPT !.pc = "replay"]
  /\ RestFS

FS_replay_enter ==
  /\ drv.pc = "replay"
  /\ drv.pos < Len(ReplayOps)
  /\ ReplayOps[drv.pos + 1] = "enter"
  /\ IF enter_ok(fstack)
       THEN /\ fstack' = enter(fstack)
            /\ drv' = [drv EXCEPT !.pos = @ + 1,
                                  !.visit2 = Append(@, fstack'.cur_frame)]
       ELSE /\ fstack' = fstack
            /\ drv' = [drv EXCEPT !.pc = "panic"]
  /\ RestFS

FS_replay_exit ==
  /\ drv.pc = "replay"
  /\ drv.pos < Len(ReplayOps)
  /\ ReplayOps[drv.pos + 1] = "exit"
  /\ IF exit_ok(fstack)
       THEN /\ fstack' = exit(fstack)
            /\ drv' = [drv EXCEPT !.pos = @ + 1,
                                  !.visit2 = Append(@, fstack'.cur_frame)]
       ELSE /\ fstack' = fstack
            /\ drv' = [drv EXCEPT !.pc = "panic"]
  /\ RestFS

NextFS ==
  \/ FS_add_child
  \/ FS_enter
  \/ FS_exit
  \/ FS_reset
  \/ FS_replay_enter
  \/ FS_replay_exit

SpecFS == InitFS /\ [][NextFS]_vars

\* C1: replay determinism of the cursor.  After reset, the enter/exit calls
\* of the first pass, issued again without the add_child calls, never panic
\* and put the cursor on the same frame ids in the same order as the first
\* pass did; when the replay is complete the two visit orders are equal.
C1_ReplayDeterminism ==
  drv.pc # "first" /\ drv.pc # "entering" =>
    /\ drv.pc = "replay"
    /\ Len(drv.visit2) = drv.pos
    /\ Len(drv.visit1) = Len(ReplayOps)
    /\ drv.visit2 = SubSeq(drv.visit1, 1, drv.pos)

\* a complete replay of a first pass with siblings and nested frames
C1_Witness ==
  /\ drv.pc = "replay"
  /\ drv.pos = Len(ReplayOps)
  /\ drv.visit2 = <<1, 2, 1, 3, 4, 3, 1, 0>>

-----------------------------------------------------------------------------
(* tokenizer.rs (the token record) and syntax_tree.rs (the node record).    *)
(* A text is a sequence of one-character strings.  line and col of a token  *)
(* only feed the panic message and are left out.                            *)

Token_new(t, text) == [type_ |-> t, text |-> text]

Token_new_empty == Token_new("Empty", <<>>)

\* NodeType: a tag and, for Number, String, Symbol and Op, its payload
NT(tag) == [tag |-> tag]

NT_Symbol(s) == [tag |-> "Symbol", s |-> s]

NT_String(s) == [tag |-> "String", s |-> s]

NT_Number(n) == [tag |-> "Number", n |-> n]

NT_Op(op) == [tag |-> "Op", op |-> op]

\* Node::new
Node_new(type_) == [type_ |-> type_, body |-> <<>>]

EmptyNode == Node_new(NT("Empty"))

\* node.body.push(child)
Push(node, child) == [node EXCEPT !.body = Append(@, child)]

\* node.body.append(&mut other.body)
AppendBody(node, other) == [node EXCEPT !.body = @ \o other.body]

\* push the node, or splice its children in when it is still Empty
PushOrSplice(parent, node) ==
  IF node.type_.tag = "Empty" THEN AppendBody(parent, node) ELSE Push(parent, node)

Digits == <<"0", "1", "2", "3", "4", "5", "6", "7", "8", "9">>

\* str::parse::<f32> on a text of decimal digits (the literals of this model
\* carry no fraction, so the f32 is the integer the digits denote)
RECURSIVE ParseF32(_)
ParseF32(text) ==
  IF Len(text) = 0 THEN 0
  ELSE 10 * ParseF32(Front(text)) + Position(Digits, Last(text))

\* str::trim_matches('\'')
RECURSIVE TrimQuotes(_)
TrimQuotes(text) ==
  IF Len(text) > 0 /\ Head(text) = "'" THEN TrimQuotes(Tail(text))
  ELSE IF Len(text) > 0 /\ Last(text) = "'" THEN TrimQuotes(Front(text))
  ELSE text

-----------------------------------------------------------------------------
(* parser.rs.  A parse function takes the parser state p and the node it    *)
(* appends to, and returns both: R(p, n).  die() panics; here it sets       *)
(* p.err, after which every function returns at once.                       *)

Parser_new(toks) ==
  [stream |-> toks, token |-> Token_new_empty, prev_token |-> Token_new_empty,
   err |-> FALSE]

R(p, n) == [p |-> p, n |-> n]

token_next(p) ==
  IF p.err THEN p
  ELSE [p EXCEPT !.prev_token = p.token,
                 !.token  = IF Len(p.stream) > 0 THEN Head(p.stream) ELSE @,
                 !.stream = IF Len(@) > 0 THEN Tail(@) ELSE @]

token_revert(p) ==
  [p EXCEPT !.stream = <<p.token>> \o @, !.token = p.prev_token]

die(p) == [p EXCEPT !.err = TRUE]

token_expect(p, t) ==
  IF p.err THEN p
  ELSE IF p.token.type_ = t THEN token_next(p) ELSE die(p)

IsFnWord(s) == s = <<"f", "n">> \/ s = <<"f", "u", "n", "c", "t", "i", "o", "n">>

KW_var == <<"v", "a", "r">>
KW_if == <<"i", "f">>
KW_else == <<"e", "l", "s", "e">>
KW_while == <<"w", "h", "i", "l", "e">>
KW_return == <<"r", "e", "t", "u", "r", "n">>

\* CHOOSE the \in {e : r \in {call}} : TRUE binds the result of a call to r
\* once, where the code holds it in a local, and is the value of e.

BlockNode == Node_new(NT("Block"))

RECURSIVE parse_fun_args(_, _), parse_fun(_, _),
          parse_list_loop(_, _), parse_list(_, _),
          parse_pair(_, _), parse_dict_loop(_, _), parse_dict(_, _),
          parse_factor(_, _),
          parse_accessor_loop(_, _), parse_accessor(_, _),
          parse_call_loop(_, _), parse_call(_, _),
          parse_unary(_, _), parse_term(_, _),
          parse_expression_loop(_, _, _), parse_expression(_, _),
          parse_condition_cmp_loop(_, _, _), parse_condition_cmp(_, _),
          parse_condition_and_loop(_, _, _), parse_condition_and(_, _),
          parse_condition_loop(_, _, _), parse_condition(_, _),
          parse_assignment(_, _), parse_statement(_, _),
          parse_block_loop(_, _), parse_block(_, _),
          parse_program_loop(_, _)

\* the loop over the formal arguments
parse_fun_args(p, args) ==
  IF p.err THEN R(p, args)
  ELSE IF p.token.type_ = "Sym"
    THEN LET a1 == Push(args, Node_new(NT_Symbol(p.token.text)))
             p1 == token_next(p)
         IN  IF p1.token.type_ = "Comma"
               THEN parse_fun_args(token_next(p1), a1)
               ELSE R(p1, a1)
    ELSE R(die(p), args)

parse_fun(p, parent) ==
  IF p.err THEN R(p, parent)
  ELSE
    LET p1 == token_expect(token_next(p), "LPar")
    IN  (CHOOSE the \in { (CHOOSE the \in { R(br.p, Push(parent, [type_ |-> NT("Function"),
                                          body  |-> <<ar.n, br.n>>]))
                    : br \in {parse_block(token_expect(ar.p, "RPar"), BlockNode)} } : TRUE)
              : ar \in {IF p1.token.type_ # "RPar"
                          THEN parse_fun_args(p1, BlockNode)
                          ELSE R(p1, BlockNode)} } : TRUE)

parse_list_loop(p, parent) ==
  IF p.err THEN R(p, parent)
  ELSE IF p.token.type_ = "Comma"
    THEN (CHOOSE the \in { parse_list_loop(r.p, r.n)
               : r \in {parse_condition(token_next(p), parent)} } : TRUE)
    ELSE R(p, parent)

parse_list(p, parent) ==
  (CHOOSE the \in { parse_list_loop(r.p, r.n) : r \in {parse_condition(p, parent)} } : TRUE)

parse_pair(p, parent) ==
  IF p.err THEN R(p, parent)
  ELSE
    LET keyed ==
          IF p.token.type_ = "Num"
            THEN R(p, Push(parent, Node_new(NT_Number(ParseF32(p.token.text)))))
          ELSE IF p.token.type_ = "Sym"
            THEN R(p, Push(parent, Node_new(NT_Symbol(p.token.text))))
          ELSE IF p.token.type_ = "Str"
            THEN R(p, Push(parent, Node_new(NT_String(TrimQuotes(p.token.text)))))
          ELSE R(die(p), parent)
        p1 == token_expect(token_next(keyed.p), "Colon")
    IN  parse_condition(p1, keyed.n)

parse_dict_loop(p, parent) ==
  IF p.err THEN R(p, parent)
  ELSE IF p.token.type_ = "Comma"
    THEN (CHOOSE the \in { parse_dict_loop(r.p, r.n)
               : r \in {parse_pair(token_next(p), parent)} } : TRUE)
    ELSE R(p, parent)

parse_dict(p, parent) ==
  (CHOOSE the \in { parse_dict_loop(r.p, r.n) : r \in {parse_pair(p, parent)} } : TRUE)

parse_factor(p, parent) ==
  CASE p.err -> R(p, parent)
    [] ~p.err /\ p.token.type_ = "Sym" ->
         IF IsFnWord(p.token.text)
           THEN parse_fun(token_revert(token_next(p)), parent)
           ELSE R(token_next(p), Push(parent, Node_new(NT_Symbol(p.token.text))))
    [] ~p.err /\ p.token.type_ = "Num" ->
         R(token_next(p), Push(parent, Node_new(NT_Number(ParseF32(p.token.text)))))
    [] ~p.err /\ p.token.type_ = "Str" ->
         R(token_next(p), Push(parent, Node_new(NT_String(TrimQuotes(p.token.text)))))
    [] ~p.err /\ p.token.type_ = "LPar" ->
         (CHOOSE the \in { R(token_expect(r.p, "RPar"), r.n)
               : r \in {parse_condition(token_next(p), parent)} } : TRUE)
    [] ~p.err /\ p.token.type_ = "LBr" ->
         (CHOOSE the \in { R(token_expect(r.p, "RBr"), Push(parent, r.n))
               : r \in {IF token_next(p).token.type_ # "RBr"
                          THEN parse_list(token_next(p), Node_new(NT("Array")))
                          ELSE R(token_next(p), Node_new(NT("Array")))} } : TRUE)
    [] ~p.err /\ p.token.type_ = "LBlock" ->
         (CHOOSE the \in { R(token_expect(r.p, "RBlock"), Push(parent, r.n))
               : r \in {IF token_next(p).token.type_ # "RBlock"
                          THEN parse_dict(token_next(p), Node_new(NT("Dict")))
                          ELSE R(token_next(p), Node_new(NT("Dict")))} } : TRUE)
    [] OTHER -> R(die(p), parent)

\* the `.NAME` arm shared by parse_accessor and parse_call; p.token is the
\* token after the Dot
member_of(p, node) ==
  IF p.token.type_ = "Sym"
    THEN LET member == Push(Node_new(NT("Member")),
                            Node_new(NT_Symbol(p.token.text)))
         IN  R(token_next(p), PushOrSplice(member, node))
    ELSE R(die(p), node)

parse_accessor_loop(p, node) ==
  IF p.err THEN R(p, node)
  ELSE IF p.token.type_ = "LBr" THEN
    (CHOOSE the \in { parse_accessor_loop(token_expect(r.p, "RBr"), PushOrSplice(r.n, node))
          : r \in {parse_condition(token_next(p), Node_new(NT("Index")))} } : TRUE)
  ELSE IF p.token.type_ = "Dot" THEN
    (CHOOSE the \in { parse_accessor_loop(r.p, r.n) : r \in {member_of(token_next(p), node)} } : TRUE)
  ELSE R(p, node)

parse_accessor(p, parent) ==
  (CHOOSE the \in { (CHOOSE the \in { R(r.p, PushOrSplice(parent, r.n))
              : r \in {parse_accessor_loop(f.p, f.n)} } : TRUE)
        : f \in {parse_factor(p, EmptyNode)} } : TRUE)

parse_call_loop(p, node) ==
  IF p.err THEN R(p, node)
  ELSE IF p.token.type_ = "LPar" THEN
    LET p1   == token_next(p)
        call == PushOrSplice(Node_new(NT("Call")), node)
    IN  (CHOOSE the \in { parse_call_loop(token_expect(ar.p, "RPar"), Push(call, ar.n))
              : ar \in {IF p1.token.type_ # "RPar"
                          THEN parse_list(p1, BlockNode)
                          ELSE R(p1, BlockNode)} } : TRUE)
  ELSE IF p.token.type_ = "Dot" THEN
    (CHOOSE the \in { parse_call_loop(r.p, r.n) : r \in {member_of(token_next(p), node)} } : TRUE)
  ELSE R(p, node)

parse_call(p, parent) ==
  (CHOOSE the \in { (CHOOSE the \in { R(r.p, PushOrSplice(parent, r.n))
              : r \in {parse_call_loop(a.p, a.n)} } : TRUE)
        : a \in {parse_accessor(p, EmptyNode)} } : TRUE)

parse_unary(p, parent) ==
  IF p.err THEN R(p, parent)
  ELSE IF p.token.type_ \in {"OpPlus", "OpMinus", "OpNot"}
    THEN (CHOOSE the \in { R(r.p, Push(parent, r.n))
               : r \in {parse_unary(token_next(p), Node_new(NT_Op(p.token.type_)))} } : TRUE)
    ELSE parse_call(p, parent)

\* the operator node type each precedence layer makes of the current token
\* type; NoOp stands for the arm that leaves the loop
NoOp == "NoOp"

\* a term_type that takes "+" for an operator of its layer
term_type_plus(tt) == IF tt \in {"OpMul", "OpDiv", "OpMod", "OpPlus"} THEN tt ELSE NoOp

term_type(tt) == IF tt \in {"OpMul", "OpDiv", "OpMod"} THEN tt ELSE NoOp

expression_type(tt) == IF tt \in {"OpPlus", "OpMinus"} THEN tt ELSE NoOp

condition_cmp_type(tt) ==
  IF tt \in {"OpLs", "OpGt", "OpGtEq", "OpLsEq", "OpEq", "OpNotEq"} THEN tt ELSE NoOp

condition_and_type_none(tt) == NoOp

condition_and_type(tt) == IF tt = "OpAnd" THEN "OpAnd" ELSE NoOp

condition_type_or(tt) == IF tt \in {"OpAnd", "OpOr"} THEN "OpOr" ELSE NoOp

\* the top layer matches the OpAnd token and makes an OpOr node of it
condition_type(tt) == IF tt = "OpAnd" THEN "OpOr" ELSE NoOp

\* The loop pushes the new operator node into parent and then makes that
\* node the parent of the next round: the rest of the chain is parsed into it.
parse_term(p, parent) ==
  IF p.err THEN R(p, parent)
  ELSE
    (CHOOSE the \in { IF u.p.err THEN R(u.p, parent)
          ELSE IF term_type(u.p.token.type_) # NoOp
            THEN (CHOOSE the \in { R(sub.p, Push(parent, sub.n))
                       : sub \in {parse_term(token_next(u.p),
                                             [type_ |-> NT_Op(term_type(u.p.token.type_)),
                                              body  |-> u.n.body])} } : TRUE)
            ELSE R(u.p, AppendBody(parent, u.n))
          : u \in {parse_unary(p, EmptyNode)} } : TRUE)

parse_expression_loop(p, term, parent) ==
  IF p.err THEN R(p, parent)
  ELSE IF expression_type(p.token.type_) # NoOp
    THEN (CHOOSE the \in { parse_expression_loop(r.p, r.n, parent)
               : r \in {parse_term(token_next(p),
                                   Push(Node_new(NT_Op(expression_type(p.token.type_))),
                                        term))} } : TRUE)
    ELSE R(p, Push(parent, term))

parse_expression(p, parent) ==
  (CHOOSE the \in { IF t.p.err THEN R(t.p, parent)
        ELSE parse_expression_loop(t.p, t.n.body[1], parent)
        : t \in {parse_term(p, EmptyNode)} } : TRUE)

parse_condition_cmp_loop(p, expr, parent) ==
  IF p.err THEN R(p, parent)
  ELSE IF condition_cmp_type(p.token.type_) # NoOp
    THEN (CHOOSE the \in { parse_condition_cmp_loop(r.p, r.n, parent)
               : r \in {parse_expression(token_next(p),
                                         Push(Node_new(NT_Op(condition_cmp_type(p.token.type_))),
                                              expr))} } : TRUE)
    ELSE R(p, Push(parent, expr))

parse_condition_cmp(p, parent) ==
  (CHOOSE the \in { IF e.p.err THEN R(e.p, parent)
        ELSE parse_condition_cmp_loop(e.p, e.n.body[1], parent)
        : e \in {parse_expression(p, EmptyNode)} } : TRUE)

parse_condition_and_loop(p, expr, parent) ==
  IF p.err THEN R(p, parent)
  ELSE IF condition_and_type(p.token.type_) # NoOp
    THEN (CHOOSE the \in { parse_condition_and_loop(r.p, r.n, parent)
               : r \in {parse_condition_cmp(token_next(p),
                                            Push(Node_new(NT_Op(condition_and_type(p.token.type_))),
                                                 expr))} } : TRUE)
    ELSE R(p, Push(parent, expr))

parse_condition_and(p, parent) ==
  (CHOOSE the \in { IF e.p.err THEN R(e.p, parent)
        ELSE parse_condition_and_loop(e.p, e.n.body[1], parent)
        : e \in {parse_condition_cmp(p, EmptyNode)} } : TRUE)

parse_condition_loop(p, expr, parent) ==
  IF p.err THEN R(p, parent)
  ELSE IF condition_type(p.token.type_) # NoOp
    THEN (CHOOSE the \in { parse_condition_loop(r.p, r.n, parent)
               : r \in {parse_condition_and(token_next(p),
                                            Push(Node_new(NT_Op(condition_type(p.token.type_))),
                                                 expr))} } : TRUE)
    ELSE R(p, Push(parent, expr))

parse_condition(p, parent) ==
  (CHOOSE the \in { IF e.p.err THEN R(e.p, parent)
        ELSE parse_condition_loop(e.p, e.n.body[1], parent)
        : e \in {parse_condition_and(p, EmptyNode)} } : TRUE)

parse_assignment(p, parent) ==
  IF p.err THEN R(p, parent)
  ELSE
    (CHOOSE the \in { IF l.p.err THEN R(l.p, parent)
          ELSE IF l.p.token.type_ = "Assign"
            THEN (CHOOSE the \in { R(token_expect(r.p, "End"), Push(parent, r.n))
                       : r \in {parse_condition(token_next(l.p), l.n)} } : TRUE)
            ELSE R(token_expect(l.p, "End"), AppendBody(parent, l.n))
          : l \in {parse_condition(p, Node_new(NT("Assign")))} } : TRUE)

\* the arm of parse_statement for the current token
statement_arm(p) ==
  IF p.token.type_ = "Sym" /\ p.token.text \in {KW_var, KW_if, KW_while, KW_return}
    THEN p.token.text
    ELSE <<>>

parse_statement(p, parent) ==
  CASE p.err -> R(p, parent)
    [] ~p.err /\ statement_arm(p) = KW_var ->
         IF token_next(p).token.type_ # "Sym" THEN R(die(token_next(p)), parent)
         ELSE (CHOOSE the \in { R(token_expect(r.p, "End"), Push(parent, r.n))
                    : r \in {parse_condition(
                               token_expect(token_next(token_next(p)), "Assign"),
                               Push(Node_new(NT("StmtVar")),
                                    Node_new(NT_Symbol(token_next(p).token.text))))} } : TRUE)
    [] ~p.err /\ statement_arm(p) = KW_if ->
         (CHOOSE the \in { (CHOOSE the \in { IF b.p.err THEN R(b.p, parent)
                     ELSE IF b.p.token.type_ = "Sym" /\ b.p.token.text = KW_else
                       THEN (CHOOSE the \in { R(e.p, Push(parent,
                                              [type_ |-> NT("StmtIfElse"),
                                               body  |-> c.n.body \o <<b.n, e.n>>]))
                                  : e \in {parse_block(token_next(b.p), BlockNode)} } : TRUE)
                       ELSE R(b.p, Push(parent, Push(c.n, b.n)))
                     : b \in {parse_block(token_expect(c.p, "RPar"), BlockNode)} } : TRUE)
               : c \in {parse_condition(token_expect(token_next(p), "LPar"),
                          Node_new(NT("StmtIf")))} } : TRUE)
    [] ~p.err /\ statement_arm(p) = KW_while ->
         (CHOOSE the \in { (CHOOSE the \in { R(b.p, Push(parent, Push(c.n, b.n)))
                     : b \in {parse_block(token_expect(c.p, "RPar"), BlockNode)} } : TRUE)
               : c \in {parse_condition(token_expect(token_next(p), "LPar"),
                          Node_new(NT("StmtWhile")))} } : TRUE)
    [] ~p.err /\ statement_arm(p) = KW_return ->
         (CHOOSE the \in { R(token_expect(r.p, "End"), Push(parent, r.n))
               : r \in {parse_condition(token_next(p), Node_new(NT("StmtReturn")))} } : TRUE)
    [] OTHER -> parse_assignment(p, parent)

parse_block_loop(p, parent) ==
  IF p.err THEN R(p, parent)
  ELSE IF p.token.type_ # "RBlock"
    THEN (CHOOSE the \in { parse_block_loop(r.p, r.n) : r \in {parse_block(p, parent)} } : TRUE)
    ELSE R(p, parent)

parse_block(p, parent) ==
  IF p.err THEN R(p, parent)
  ELSE IF p.token.type_ = "LBlock"
    THEN (CHOOSE the \in { R(token_expect(r.p, "RBlock"), r.n)
               : r \in {parse_block_loop(token_next(p), parent)} } : TRUE)
    ELSE parse_statement(p, parent)

parse_program_loop(p, root) ==
  IF p.err THEN R(p, root)
  ELSE IF p.token.type_ # "Eof"
    THEN (CHOOSE the \in { parse_program_loop(r.p, r.n) : r \in {parse_block(p, root)} } : TRUE)
    ELSE R(p, root)

parse_program(p) ==
  (CHOOSE the \in { R(token_expect(r.p, "Eof"), r.n)
        : r \in {parse_program_loop(token_next(p), BlockNode)} } : TRUE)

\* Parser::new(tokens).parse()
parse(toks) == parse_program(Parser_new(toks))

-----------------------------------------------------------------------------
(* Token lists, as Tokenizer::tokenize returns them: the tokens of the      *)
(* source in order, then one Eof.                                           *)

Sym(s) == Token_new("Sym", s)

Num(s) == Token_new("Num", s)

\* the lexeme of each token type that has a fixed one
Lexeme ==
  [OpPlus |-> <<"+">>, OpMinus |-> <<"-">>, OpMul |-> <<"*">>, OpDiv |-> <<"/">>,
   OpMod |-> <<"%">>, OpOr |-> <<"|", "|">>, OpAnd |-> <<"&", "&">>,
   OpNot |-> <<"!">>, OpLs |-> <<"<">>, OpGt |-> <<">">>,
   OpLsEq |-> <<"<", "=">>, OpGtEq |-> <<">", "=">>, OpEq |-> <<"=", "=">>,
   OpNotEq |-> <<"!", "=">>, Assign |-> <<"=">>, Comma |-> <<",">>,
   Dot |-> <<".">>, Colon |-> <<":">>, End |-> <<";">>, LBr |-> <<"[">>,
   RBr |-> <<"]">>, LBlock |-> <<"{">>, RBlock |-> <<"}">>, LPar |-> <<"(">>,
   RPar |-> <<")">>, Eof |-> <<>>]

Tk(t) == Token_new(t, Lexeme[t])

\* a sequence of token types as tokens
RECURSIVE Tks(_)
Tks(ts) == IF ts = <<>> THEN <<>> ELSE <<Tk(Head(ts))>> \o Tks(Tail(ts))

BinOpTokens ==
  {"OpMul", "OpDiv", "OpMod", "OpPlus", "OpMinus", "OpLs", "OpGt", "OpLsEq",
   "OpGtEq", "OpEq", "OpNotEq", "OpAnd", "OpOr"}

\* the i-th operand of a chain: a, b, c, ...
OperandNames == <<"a", "b", "c", "d", "e", "f">>

Operand(i) == Sym(<<OperandNames[i]>>)

MaxOperands == 3

\* a op1 b op2 c ...: the operands in order with the operators ops between
RECURSIVE Chain(_, _)
Chain(ops, i) ==
  IF ops = <<>> THEN <<Operand(i)>>
  ELSE <<Operand(i), Tk(Head(ops))>> \o Chain(Tail(ops), i + 1)

RECURSIVE SeqsUpTo(_, _)
SeqsUpTo(S, n) ==
  IF n = 0 THEN {<<>>}
  ELSE LET shorter == SeqsUpTo(S, n - 1)
       IN  shorter \cup {Append(q, x) : q \in {r \in shorter : Len(r) = n - 1}, x \in S}

ChainOps == SeqsUpTo(BinOpTokens, MaxOperands - 1)

\* the places an expression can stand in: the tokens before and after it
Contexts ==
  { <<<<>>, Tks(<<"End">>)>>,
    <<<<Sym(<<"x">>), Tk("Assign")>>, Tks(<<"End">>)>>,
    <<<<Sym(KW_var), Sym(<<"x">>), Tk("Assign")>>, Tks(<<"End">>)>>,
    <<<<Sym(KW_return)>>, Tks(<<"End">>)>>,
    <<Tks(<<"LPar">>), Tks(<<"RPar", "End">>)>>,
    <<<<Sym(<<"x">>), Tk("Assign"), Tk("LBr")>>, Tks(<<"RBr", "End">>)>>,
    <<<<Sym(<<"x">>), Tk("LPar")>>, Tks(<<"RPar", "End">>)>>,
    <<<<Sym(<<"x">>), Tk("LBr")>>, Tks(<<"RBr", "End">>)>>,
    <<<<Sym(<<"x">>), Tk("Assign"), Tk("LBlock"), Sym(<<"k">>), Tk("Colon")>>,
      Tks(<<"RBlock", "End">>)>>,
    <<<<Sym(KW_if), Tk("LPar")>>, Tks(<<"RPar", "LBlock", "RBlock">>)>>,
    <<<<Sym(KW_while), Tk("LPar")>>, Tks(<<"RPar", "LBlock", "RBlock">>)>>,
    <<<<Sym(<<"x">>), Tk("Assign"), Sym(<<"f", "n">>), Tk("LPar"), Tk("RPar"),
        Tk("LBlock"), Sym(KW_return)>>,
      Tks(<<"End", "RBlock", "End">>)>> }

InContext(ctx, expr) == ctx[1] \o expr \o ctx[2] \o <<Tk("Eof")>>

ExprSources == {InContext(ctx, Chain(ops, 1)) : ctx \in Contexts, ops \in ChainOps}

UnaryOpTokens == {"OpPlus", "OpMinus", "OpNot"}

\* u a op b: a unary operator before the first operand of a chain
UnaryChain(u, op) == <<Tk(u)>> \o Chain(<<op>>, 1)

UnarySources ==
  {InContext(ctx, UnaryChain(u, op))
     : ctx \in Contexts, u \in UnaryOpTokens, op \in BinOpTokens}

\* every token list of at most MaxShort tokens, over one token of each type
MaxShort == 2

AnyToken ==
  {Tk(t) : t \in DOMAIN Lexeme \ {"Eof"}}
    \cup {Sym(<<"a">>), Sym(<<"f", "n">>), Sym(KW_var), Sym(KW_return),
          Num(<<"1">>), Token_new("Str", <<"'", "s", "'">>)}

ShortSources == {q \o <<Tk("Eof")>> : q \in SeqsUpTo(AnyToken, MaxShort)}

IdleBackend ==
  /\ fstack = FrameStackTree_new
  /\ drv = DrvInit
  /\ asm = <<>>
  /\ hist = <<>>

InitParse ==
  /\ tokens \in ExprSources \cup UnarySources \cup ShortSources
  /\ ast = EmptyNode
  /\ phase = "source"
  /\ IdleBackend

\* main.rs process: Parser::new(tokens).parse(); a panic ends the run
Parse ==
  /\ phase = "source"
  /\ LET r == parse(tokens)
     IN  IF r.p.err
           THEN /\ phase' = "parse_error"
                /\ ast' = EmptyNode
           ELSE /\ phase' = "parsed"
                /\ ast' = r.n
  /\ UNCHANGED <<tokens, fstack, drv, asm, hist>>

SpecParse == InitParse /\ [][Parse]_vars

-----------------------------------------------------------------------------
\* Shapes of the trees the parser returns

Leaf(i) == Node_new(NT_Symbol(<<OperandNames[i]>>))

Bin(op, l, r) == [type_ |-> NT_Op(op), body |-> <<l, r>>]

LeftAssoc(op1, op2) == Bin(op2, Bin(op1, Leaf(1), Leaf(2)), Leaf(3))

RightAssoc(op1, op2) == Bin(op1, Leaf(1), Bin(op2, Leaf(2), Leaf(3)))

RECURSIVE HasSubtree(_, _)
HasSubtree(n, t) ==
  n = t \/ \E i \in 1..Len(n.body) : HasSubtree(n.body[i], t)

RECURSIVE HasOp(_, _)
HasOp(n, op) ==
  \/ n.type_.tag = "Op" /\ n.type_.op = op
  \/ \E i \in 1..Len(n.body) : HasOp(n.body[i], op)

HasToken(toks, tt) == \E i \in 1..Len(toks) : toks[i].type_ = tt

Layers ==
  { {"OpMul", "OpDiv", "OpMod"},
    {"OpPlus", "OpMinus"},
    {"OpLs", "OpGt", "OpGtEq", "OpLsEq", "OpEq", "OpNotEq"},
    {"OpAnd"} }

SameLayer(op1, op2) == \E L \in Layers : op1 \in L /\ op2 \in L

IsChainOf(toks, ops) == \E ctx \in Contexts : toks = InContext(ctx, Chain(ops, 1))

\* C8: for two binary operators op1, op2 of one precedence layer, the tree
\* returned for `a op1 b op2 c` contains op2(op1(a, b), c): every layer is
\* left-associative.
C8_LeftAssociative ==
  \A op1, op2 \in BinOpTokens :
    phase = "parsed" /\ SameLayer(op1, op2) /\ IsChainOf(tokens, <<op1, op2>>)
      => HasSubtree(ast, LeftAssoc(op1, op2))

\* C9: a token list that holds an OpOr token is never parsed to a tree: the
\* run of the parser on it ends in the parse-error abort.
C9_OrRejected ==
  phase # "source" /\ HasToken(tokens, "OpOr") => phase = "parse_error"

C9_Witness ==
  /\ phase = "parse_error"
  /\ IsChainOf(tokens, <<"OpAnd", "OpOr">>)

\* C10 as stated: a run of `&&` operators comes back with an Or node in
\* its tree.
C10_AndRunHasOr ==
  \A n \in 1..(MaxOperands - 1) :
    phase = "parsed" /\ IsChainOf(tokens, [i \in 1..n |-> "OpAnd"])
      => HasOp(ast, "OpOr")

\* C10: the and layer takes every `&&`, so the top layer never sees one: no
\* tree the parser returns holds an Or node, and `a && b && c` comes back
\* as And(And(a, b), c).
C10_NoOrNode ==
  phase = "parsed" =>
    /\ ~HasOp(ast, "OpOr")
    /\ IsChainOf(tokens, <<"OpAnd", "OpAnd">>)
         => HasSubtree(ast, LeftAssoc("OpAnd", "OpAnd"))

C10_Witness ==
  /\ phase = "parsed"
  /\ IsChainOf(tokens, <<"OpAnd", "OpAnd">>)
  /\ HasSubtree(ast, LeftAssoc("OpAnd", "OpAnd"))
  /\ ~HasOp(ast, "OpOr")

-----------------------------------------------------------------------------
(* assembler.rs.  The output file is a sequence of bytes with a write       *)
(* cursor pos; sp is the stack of simulated operand-stack depths; labels    *)
(* holds, per label, the offsets of its put_label sites.  The listing       *)
(* written by print_op to asm_file is left out: it reads the cursor and     *)
(* changes nothing here.                                                    *)

OpCode ==
  [PushNum |-> 32, PushStr |-> 33, PushInt |-> 34, PushFn |-> 35, Take |-> 36,
   Swap |-> 37, Pop |-> 38, Load |-> 49, Store |-> 50, JumpIf |-> 64,
   Jump |-> 65, Call |-> 66, Add |-> 80, Sub |-> 81, Mul |-> 82, Div |-> 83,
   Mod |-> 84, Neg |-> 85, Lt |-> 96, Gt |-> 97, Eq |-> 98, NotEq |-> 99,
   Leq |-> 100, Geq |-> 101, And |-> 102, Or |-> 103, Not |-> 104,
   Get |-> 112, PushDict |-> 113, PushArray |-> 114]

\* OpCode::from_op_node_type, on the OpType of an Op node
from_op_node_type ==
  [OpMul |-> "Mul", OpDiv |-> "Div", OpMod |-> "Mod", OpOr |-> "Or",
   OpAnd |-> "And", OpLs |-> "Lt", OpGt |-> "Gt", OpLsEq |-> "Leq",
   OpGtEq |-> "Geq", OpEq |-> "Eq", OpNotEq |-> "NotEq", OpNot |-> "Not",
   OpPlus |-> "Add", OpMinus |-> "Sub"]

\* the placeholder put_label writes
DEAD == 57005

Assembler_new == [file |-> <<>>, pos |-> 0, sp |-> <<0>>, labels |-> <<>>]

\* Write::write_all on a File: the bytes go where the cursor is, over what
\* is there and past the end, and the cursor moves behind them
write_all(a, bytes) ==
  [a EXCEPT !.file = SubSeq(a.file, 1, a.pos) \o bytes
                       \o SubSeq(a.file, a.pos + Len(bytes) + 1, Len(a.file)),
            !.pos  = a.pos + Len(bytes)]

write_u8(a, b) == write_all(a, <<b>>)

\* The four bytes of a 32-bit word, little endian.  The word is held as the
\* integer of its bit pattern read in two's complement, so a u32 with the top
\* bit set (a subtraction that wrapped) is a negative integer here.
LittleEndian(v) ==
  IF v >= 0
    THEN <<v % 256, (v \div 256) % 256, (v \div 65536) % 256, (v \div 16777216) % 256>>
    ELSE <<v % 256, (v \div 256) % 256, (v \div 65536) % 256,
           ((v + 2147483647 + 1) \div 16777216) + 128>>

write_u32(a, v) == write_all(a, LittleEndian(v))

\* An f32 is held as sign and magnitude: [neg, mag] with mag a natural
\* below 2^24, which an f32 holds exactly.
F32(n) == [neg |-> FALSE, mag |-> n]

\* -x on an f32 flips the sign bit, of 0.0 too
F32_neg(x) == [x EXCEPT !.neg = ~@]

\* the exponent e of the leading bit: 2^e <= n < 2^(e+1)
RECURSIVE Log2(_)
Log2(n) == IF n < 2 THEN 0 ELSE 1 + Log2(n \div 2)

\* the IEEE 754 single precision exponent and fraction bits of the magnitude
F32_bits(x) ==
  IF x.mag = 0 THEN 0
  ELSE (127 + Log2(x.mag)) * 8388608
         + (x.mag - 2 ^ Log2(x.mag)) * 2 ^ (23 - Log2(x.mag))

\* the sign is the top bit of the last byte
write_f32(a, x) ==
  write_all(a, [LittleEndian(F32_bits(x)) EXCEPT ![4] = IF x.neg THEN @ + 128 ELSE @])

\* the printable ASCII characters of codes 32 to 95 and of codes 97 to 126
AsciiTo95 ==
  <<" ", "!", "\"", "#", "$", "%", "&", "'", "(", ")", "*", "+", ",", "-", ".",
    "/", "0", "1", "2", "3", "4", "5", "6", "7", "8", "9", ":", ";", "<", "=",
    ">", "?", "@", "A", "B", "C", "D", "E", "F", "G", "H", "I", "J", "K", "L",
    "M", "N", "O", "P", "Q", "R", "S", "T", "U", "V", "W", "X", "Y", "Z", "[",
    "\\", "]", "^", "_">>

AsciiFrom97 ==
  <<"a", "b", "c", "d", "e", "f", "g", "h", "i", "j", "k", "l", "m", "n", "o",
    "p", "q", "r", "s", "t", "u", "v", "w", "x", "y", "z", "{", "|", "}", "~">>

as_byte(ch) ==
  IF Contains(AsciiTo95, ch) THEN Position(AsciiTo95, ch) + 32
  ELSE Position(AsciiFrom97, ch) + 97

\* str::as_bytes
as_bytes(value) == [i \in 1..Len(value) |-> as_byte(value[i])]

\* seek(SeekFrom::Current(0))
get_ip(a) == a.pos

get_sp(a) == Last(a.sp)

\* a push_sp that starts every counter at 0
push_sp_zero(a, new) == [a EXCEPT !.sp = Append(@, 0)]

push_sp(a, new) == [a EXCEPT !.sp = Append(@, new)]

\* a pop_sp that leaves the counter on the stack
pop_sp_keep(a) == a

pop_sp(a) == [a EXCEPT !.sp = Front(@)]

\* *self.sp.last_mut().unwrap() += d
sp_add(a, d) == [a EXCEPT !.sp[Len(a.sp)] = @ + d]

push_int(a, value) ==
  sp_add(write_u32(write_u8(a, OpCode.PushInt), value), 1)

push_float(a, value) ==
  sp_add(write_f32(write_u8(a, OpCode.PushNum), value), 1)

push_str(a, value) ==
  sp_add(write_all(write_u32(write_u8(a, OpCode.PushStr), Len(as_bytes(value))),
                   as_bytes(value)), 1)

\* a push_fn that writes no frame size
push_fn_unsized(a, parent_frames_count, parent_frames_offset, own_frame_size) ==
  write_u32(write_u32(write_u8(a, OpCode.PushFn), parent_frames_count),
            parent_frames_offset)

push_fn(a, parent_frames_count, parent_frames_offset, own_frame_size) ==
  write_u32(write_u32(write_u32(write_u8(a, OpCode.PushFn), parent_frames_count),
                      parent_frames_offset), own_frame_size)

push_dict(a, len) ==
  sp_add(sp_add(write_u32(write_u8(a, OpCode.PushDict), len), -(len * 2)), 1)

push_array(a, len) ==
  sp_add(sp_add(write_u32(write_u8(a, OpCode.PushArray), len), -len), 1)

take(a, offset) == sp_add(write_u32(write_u8(a, OpCode.Take), offset), 1)

swap(a, x, y) == write_u32(write_u32(write_u8(a, OpCode.Swap), x), y)

pop(a, n) == sp_add(write_u32(write_u8(a, OpCode.Pop), n), -n)

load(a, offset) == write_u32(write_u8(a, OpCode.Load), offset)

\* store with a simulated depth change of one instead of two
store_one(a) == sp_add(write_u8(a, OpCode.Store), -1)

store(a) == sp_add(write_u8(a, OpCode.Store), -2)

op_binary(a, op) == sp_add(write_u8(a, OpCode[from_op_node_type[op]]), -1)

\* op_unary panics on every operator but +, - and !
op_unary_ok(op) == op \in {"OpPlus", "OpMinus", "OpNot"}

op_unary(a, op) ==
  IF op = "OpPlus" THEN a
  ELSE write_u8(a, IF op = "OpMinus" THEN OpCode.Neg ELSE OpCode.Not)

\* returns the new label, labels.len() - 1: the length before the push
gen_label(a) == [a EXCEPT !.labels = Append(@, <<>>)]

put_label(a, label) ==
  sp_add(write_u32(write_u8([a EXCEPT !.labels[label + 1] = Append(@, get_ip(a))],
                            OpCode.PushInt),
                   DEAD), 1)

seek_start(a, p) == [a EXCEPT !.pos = p]

\* a seek to the end that leaves the cursor where the patch ended
seek_end_stay(a) == a

seek_end(a) == [a EXCEPT !.pos = Len(a.file)]

\* the loop of fill_label over the recorded sites
RECURSIVE fill_sites(_, _, _)
fill_sites(a, sites, offset) ==
  IF sites = <<>> THEN a
  ELSE fill_sites(seek_end(write_u32(write_u8(seek_start(a, Head(sites)),
                                              OpCode.PushInt), offset)),
                  Tail(sites), offset)

\* fill_label that patches nothing
fill_label_skip(a, label) == a

fill_label(a, label) == fill_sites(a, At(a.labels, label), get_ip(a))

jump(a) == sp_add(write_u8(a, OpCode.Jump), -1)

jump_if(a) == sp_add(write_u8(a, OpCode.JumpIf), -2)

call(a, n_args) == sp_add(write_u8(a, OpCode.Call), -(1 + n_args + 1))

get(a) == sp_add(write_u8(a, OpCode.Get), -1)

\* One call of an Assembler method, as data: the method and its arguments.
\* A run of calls is written as a list of these, in the order of the code.
I(op, x, y, z) == [op |-> op, x |-> x, y |-> y, z |-> z]

Do(a, i) ==
  CASE i.op = "push_int"   -> push_int(a, i.x)
    [] i.op = "push_float" -> push_float(a, i.x)
    [] i.op = "push_str"   -> push_str(a, i.x)
    [] i.op = "push_fn"    -> push_fn(a, i.x, i.y, i.z)
    [] i.op = "push_dict"  -> push_dict(a, i.x)
    [] i.op = "push_array" -> push_array(a, i.x)
    [] i.op = "take"       -> take(a, i.x)
    [] i.op = "swap"       -> swap(a, i.x, i.y)
    [] i.op = "pop"        -> pop(a, i.x)
    [] i.op = "load"       -> load(a, i.x)
    [] i.op = "store"      -> store(a)
    [] i.op = "op_binary"  -> op_binary(a, i.x)
    [] i.op = "op_unary"   -> op_unary(a, i.x)
    [] i.op = "gen_label"  -> gen_label(a)
    [] i.op = "put_label"  -> put_label(a, i.x)
    [] i.op = "fill_label" -> fill_label(a, i.x)
    [] i.op = "jump"       -> jump(a)
    [] i.op = "jump_if"    -> jump_if(a)
    [] i.op = "call"       -> call(a, i.x)
    [] i.op = "get"        -> get(a)
    [] i.op = "push_sp"    -> push_sp(a, i.x)
    [] i.op = "pop_sp"     -> pop_sp(a)

-----------------------------------------------------------------------------
(* The Assembler driven through its public methods in any order: emits,     *)
(* gen_label, put_label and fill_label on any label made so far.  hist      *)
(* keeps, per call, the call and the file as it was before it.              *)

MaxCalls == 5

MaxLabels == 2

\* emits that append through write_u8, write_u32 and write_all
EmitCalls == <<I("push_int", 7, 0, 0), I("push_str", <<"a", "b">>, 0, 0)>>

Called(i) == [call |-> i, before |-> asm.file]

InitAsm ==
  /\ asm = Assembler_new
  /\ phase = "asm"
  /\ hist = <<>>
  /\ fstack = FrameStackTree_new
  /\ drv = DrvInit
  /\ tokens = <<>>
  /\ ast = EmptyNode

RestAsm == UNCHANGED <<fstack, drv, tokens, ast, phase>>

Asm_emit ==
  /\ Len(hist) < MaxCalls
  /\ \E n \in 1..Len(EmitCalls) :
       /\ asm' = Do(asm, EmitCalls[n])
       /\ hist' = Append(hist, Called(EmitCalls[n]))
  /\ RestAsm

Asm_gen_label ==
  /\ Len(hist) < MaxCalls
  /\ Len(asm.labels) < MaxLabels
  /\ asm' = gen_label(asm)
  /\ hist' = Append(hist, Called(I("gen_label", 0, 0, 0)))
  /\ RestAsm

Asm_put_label ==
  /\ Len(hist) < MaxCalls
  /\ \E label \in 0..(Len(asm.labels) - 1) :
       /\ asm' = put_label(asm, label)
       /\ hist' = Append(hist, Called(I("put_label", label, 0, 0)))
  /\ RestAsm

Asm_fill_label ==
  /\ Len(hist) < MaxCalls
  /\ \E label \in 0..(Len(asm.labels) - 1) :
       /\ asm' = fill_label(asm, label)
       /\ hist' = Append(hist, Called(I("fill_label", label, 0, 0)))
  /\ RestAsm

NextAsm ==
  \/ Asm_emit
  \/ Asm_gen_label
  \/ Asm_put_label
  \/ Asm_fill_label

SpecAsm == InitAsm /\ [][NextAsm]_vars

\* the file as call k left it
FileAfter(k) == IF k = Len(hist) THEN asm.file ELSE hist[k + 1].before

IsPrefix(s, t) == Len(s) <= Len(t) /\ SubSeq(t, 1, Len(s)) = s

\* the number of put_label sites of the label that call k filled
SitesFilled(k) == Len(At(asm.labels, hist[k].call.x))

\* C7: between calls the write cursor is at the end of the file, after
\* fill_label too, whatever the number of sites it patched; so every call
\* but fill_label leaves the bytes written before it as they were and only
\* appends, and fill_label keeps the length of the file.
C7_CursorAtEnd ==
  /\ asm.pos = Len(asm.file)
  /\ \A k \in 1..Len(hist) :
       IF hist[k].call.op = "fill_label"
         THEN Len(FileAfter(k)) = Len(hist[k].before)
         ELSE IsPrefix(hist[k].before, FileAfter(k))

\* a label with two sites is filled and an emit follows the fill
C7_Witness ==
  /\ Len(hist) = 5
  /\ hist[4].call.op = "fill_label"
  /\ SitesFilled(4) = 2
  /\ hist[5].call.op = "push_int"
  /\ Len(asm.file) = Len(hist[5].before) + 5
  /\ asm.pos = Len(asm.file)

-----------------------------------------------------------------------------
(* syntax_tree.rs Node::visit and var_analyzer.rs.  A node of the tree is   *)
(* named by its path: the 0-based child indices from the root.  A visitor   *)
(* is [fstack, err, log]: the frame stack it borrows, whether it panicked,  *)
(* and the history of what it did (not a field of the code).  After a      *)
(* panic every function returns at once.                                    *)

\* an entry of the history: kind, node path, two numbers and a tag
Ev(k, path, a, b, t) == [k |-> k, path |-> path, a |-> a, b |-> b, t |-> t]

Visitor_new(t) == [fstack |-> t, err |-> FALSE, log |-> <<>>]

Child(node, i) == At(node.body, i)

Has(node, i) == i < Len(node.body)

IsSymbol(node) == node.type_.tag = "Symbol"

LocalPass_enter_var(v, node) ==
  IF Has(node, 0) /\ IsSymbol(Child(node, 0))
    THEN [v EXCEPT !.fstack = put_var(@, Child(node, 0).type_.s)]
    ELSE [v EXCEPT !.err = TRUE]

\* the insert as the specification words it: behind `this`
insert_arg_behind_this(offsets, s) == Insert(offsets, 1, s)

\* var_offsets.insert(0, s.clone())
insert_arg(offsets, s) == Insert(offsets, 0, s)

\* the loop over the formals, in declaration order
RECURSIVE insert_args(_, _)
insert_args(offsets, args) ==
  IF args = <<>> THEN offsets
  ELSE insert_args(IF IsSymbol(Head(args))
                     THEN insert_arg(offsets, Head(args).type_.s)
                     ELSE offsets,
                   Tail(args))

\* add_child leaves next_frame on the new frame, so the enter is in range
LocalPass_enter_fun(v, node, path) ==
  LET t     == enter(add_child(v.fstack))
      frame == t.cur_frame
      slots == insert_args(At(t.frames, frame).var_offsets, Child(node, 0).body)
  IN  [v EXCEPT !.fstack = [t EXCEPT !.frames = SetAt(@, frame, [var_offsets |-> slots])],
                !.log    = Append(@, Ev("frame", path, frame, 0, ""))]

Visitor_exit_fun(v) ==
  IF exit_ok(v.fstack) THEN [v EXCEPT !.fstack = exit(@)]
  ELSE [v EXCEPT !.err = TRUE]

GlobalPass_enter_assign(v, node) ==
  IF ~Has(node, 0) THEN [v EXCEPT !.err = TRUE]
  ELSE IF ~IsSymbol(Child(node, 0)) THEN v
  ELSE IF ~find_var(v.fstack, Child(node, 0).type_.s).found
    THEN [v EXCEPT !.fstack = put_var_global(@, Child(node, 0).type_.s)]
    ELSE v

\* an enter_fun of the second pass that creates the frame again
GlobalPass_enter_fun_again(v, path) ==
  [v EXCEPT !.fstack = enter(add_child(@)),
            !.log    = Append(@, Ev("replay", path, Len(v.fstack.frames), 0, ""))]

GlobalPass_enter_fun(v, path) ==
  IF enter_ok(v.fstack)
    THEN [v EXCEPT !.fstack = enter(@),
                   !.log    = Append(@, Ev("replay", path, v.fstack.next_frame, 0, ""))]
    ELSE [v EXCEPT !.err = TRUE]

\* the enter_* hook Node::visit calls for the node, per visitor
Visitor_enter(pass, v, node, path) ==
  CASE v.err -> v
    [] ~v.err /\ pass = "LocalPass" /\ node.type_.tag = "StmtVar" ->
         LocalPass_enter_var(v, node)
    [] ~v.err /\ pass = "LocalPass" /\ node.type_.tag = "Function" ->
         LocalPass_enter_fun(v, node, path)
    [] ~v.err /\ pass = "GlobalPass" /\ node.type_.tag = "Assign" ->
         GlobalPass_enter_assign(v, node)
    [] ~v.err /\ pass = "GlobalPass" /\ node.type_.tag = "Function" ->
         GlobalPass_enter_fun(v, path)
    [] OTHER -> v

\* the exit_* hook: both visitors only have exit_fun
Visitor_exit(pass, v, node) ==
  IF v.err THEN v
  ELSE IF node.type_.tag = "Function" THEN Visitor_exit_fun(v)
  ELSE v

\* Node::visit: the enter hook, the children in body order, the exit hook
RECURSIVE visit(_, _, _, _), visit_body(_, _, _, _, _)
visit(pass, v, node, path) ==
  IF v.err THEN v
  ELSE Visitor_exit(pass,
                    visit_body(pass, Visitor_enter(pass, v, node, path), node, path, 0),
                    node)

visit_body(pass, v, node, path, i) ==
  IF v.err \/ ~Has(node, i) THEN v
  ELSE visit_body(pass, visit(pass, v, Child(node, i), path \o <<i>>), node, path, i + 1)

\* build_frame_stack, first half: ast.visit(LocalPass); fstack.reset()
local_pass(root) ==
  [visit("LocalPass", Visitor_new(FrameStackTree_new), root, <<>>)
     EXCEPT !.fstack = reset(@)]

\* build_frame_stack, second half: ast.visit(GlobalPass); fstack.reset()
global_pass(t, root) ==
  [visit("GlobalPass", Visitor_new(t), root, <<>>) EXCEPT !.fstack = reset(@)]

-----------------------------------------------------------------------------
(* compiler.rs.  The compiler is [frame_stack, assembler, err, log, debug]: *)
(* its two fields that change, whether it panicked, the history of what it  *)
(* did, and whether the build checks integer overflow (a debug build        *)
(* panics where a release build wraps).  After a panic every function       *)
(* returns at once.                                                         *)

Compiler_new(t, debug) ==
  [frame_stack |-> t, assembler |-> Assembler_new, err |-> FALSE, log |-> <<>>,
   debug |-> debug]

Abort(c) == [c EXCEPT !.err = TRUE]

Note(c, e) == [c EXCEPT !.log = Append(@, e)]

I0(op) == I(op, 0, 0, 0)

I1(op, x) == I(op, x, 0, 0)

\* what the history keeps of a label call: the label and the cursor before it
LabelNote(c, i) ==
  IF i.op = "gen_label"
    THEN Append(c.log, Ev(i.op, <<>>, Len(c.assembler.labels), c.assembler.pos, ""))
  ELSE IF i.op \in {"put_label", "fill_label"}
    THEN Append(c.log, Ev(i.op, <<>>, i.x, c.assembler.pos, ""))
  ELSE c.log

\* a run of self.assembler calls, in order
RECURSIVE Emit(_, _)
Emit(c, is) ==
  IF c.err \/ is = <<>> THEN c
  ELSE Emit([c EXCEPT !.assembler = Do(@, Head(is)), !.log = LabelNote(c, Head(is))],
            Tail(is))

\* sys_objects: "std" -> 0x00
STD == <<"s", "t", "d">>

sys_ptr == 0

BinaryOnly ==
  {"OpMul", "OpDiv", "OpMod", "OpOr", "OpAnd", "OpLs", "OpGt", "OpLsEq",
   "OpGtEq", "OpEq", "OpNotEq"}

RECURSIVE compile_block(_, _, _), compile_block_match(_, _, _),
          compile_stmts(_, _, _, _), compile_assign(_, _, _),
          compile_expr(_, _, _), compile_value(_, _, _),
          compile_values(_, _, _, _), compile_pairs(_, _, _, _),
          compile_binary(_, _, _), compile_op(_, _, _),
          compile_member(_, _, _), compile_index(_, _, _),
          compile_expr_match(_, _, _),
          compile_fn(_, _, _), compile_fn_entered(_, _, _),
          compile_return(_, _, _), compile_call(_, _, _),
          compile_if(_, _, _), compile_if_then(_, _, _),
          compile_if_else(_, _, _, _),
          compile_while(_, _, _), compile_while_body(_, _, _, _)

take_value(c, node) ==
  IF node.type_.tag \in {"Symbol", "Member", "Index"}
    THEN Emit(c, <<I1("load", 0)>>)
    ELSE c

\* the history entries of a value compiled: the offsets its code spans,
\* and the stack of simulated depths before and behind it
value_end(c, path, ip_in, sp_in) ==
  IF c.err THEN c
  ELSE Note(Note(c, Ev("value", path, ip_in, get_ip(c.assembler), "")),
            Ev("sp_stack", path, sp_in, c.assembler.sp, "value"))

\* self.compile_expr(n); self.take_value(n)
compile_value(c, node, path) ==
  IF c.err THEN c
  ELSE value_end(take_value(compile_expr(c, node, path), node), path,
                 get_ip(c.assembler), c.assembler.sp)

\* the history entries of a compile_block call that returned: the simulated
\* depth on entry and on return, and the offsets its code spans
block_end(c, node, path, sp_in, ip_in) ==
  IF c.err THEN c
  ELSE Note(Note(Note(c, Ev("compile_block", path, Last(sp_in), get_sp(c.assembler),
                            node.type_.tag)),
                 Ev("span", path, ip_in, get_ip(c.assembler), node.type_.tag)),
            Ev("sp_stack", path, sp_in, c.assembler.sp, node.type_.tag))

compile_block_match(c, node, path) ==
  CASE node.type_.tag = "Block" -> compile_stmts(c, node, path, 0)
    [] node.type_.tag \in {"Assign", "StmtVar"} -> compile_assign(c, node, path)
    [] node.type_.tag = "Call" -> Emit(compile_call(c, node, path), <<I1("pop", 1)>>)
    [] node.type_.tag \in {"StmtIf", "StmtIfElse"} -> compile_if(c, node, path)
    [] node.type_.tag = "StmtWhile" -> compile_while(c, node, path)
    [] node.type_.tag = "StmtReturn" -> compile_return(c, node, path)
    [] OTHER -> Abort(c)

compile_block(c, node, path) ==
  IF c.err THEN c
  ELSE block_end(compile_block_match(c, node, path), node, path,
                 c.assembler.sp, get_ip(c.assembler))

\* for ref stmt in &node.body
compile_stmts(c, node, path, i) ==
  IF c.err \/ ~Has(node, i) THEN c
  ELSE compile_stmts(compile_block(c, Child(node, i), path \o <<i>>), node, path, i + 1)

compile_assign(c, node, path) ==
  IF ~Has(node, 1) THEN Abort(c)
  ELSE Emit(compile_expr(compile_value(c, Child(node, 1), path \o <<1>>),
                         Child(node, 0), path \o <<0>>),
            <<I0("store")>>)

compile_dict_key(c, node) ==
  CASE node.type_.tag \in {"Symbol", "String"} -> Emit(c, <<I1("push_str", node.type_.s)>>)
    [] node.type_.tag = "Number" -> Emit(c, <<I1("push_float", F32(node.type_.n))>>)
    [] OTHER -> Abort(c)

\* for val in node.body.iter(): compile_expr(val); take_value(val)
compile_values(c, node, path, i) ==
  IF c.err \/ ~Has(node, i) THEN c
  ELSE compile_values(compile_value(c, Child(node, i), path \o <<i>>), node, path, i + 1)

\* for kv in node.body.chunks(2): a last chunk of one has no kv[1]
compile_pairs(c, node, path, i) ==
  IF c.err \/ ~Has(node, i) THEN c
  ELSE IF ~Has(node, i + 1) THEN Abort(compile_dict_key(c, Child(node, i)))
  ELSE compile_pairs(compile_value(compile_dict_key(c, Child(node, i)),
                                   Child(node, i + 1), path \o <<i + 1>>),
                     node, path, i + 2)

\* both operands, then op_binary
compile_binary(c, node, path) ==
  IF ~Has(node, 1) THEN Abort(c)
  ELSE Emit(compile_value(compile_value(c, Child(node, 0), path \o <<0>>),
                          Child(node, 1), path \o <<1>>),
            <<I1("op_binary", node.type_.op)>>)

compile_op(c, node, path) ==
  CASE node.type_.op \in BinaryOnly \/ Has(node, 1) -> compile_binary(c, node, path)
    [] node.type_.op \notin BinaryOnly /\ ~Has(node, 0) -> Abort(c)
    [] node.type_.op = "OpMinus" /\ Len(node.body) = 1
         /\ Child(node, 0).type_.tag = "Number" ->
           Emit(c, <<I1("push_float", F32_neg(F32(Child(node, 0).type_.n)))>>)
    [] OTHER -> Emit(compile_value(c, Child(node, 0), path \o <<0>>),
                     <<I1("op_unary", node.type_.op)>>)

\* The Symbol arm.  get_sp() as u32 - frame_offset as u32 overflows when the
\* depth is below the frame offset: a panic in a debug build, a wrap otherwise.
\* The history keeps the name that is not found with the offset the file
\* ends at, and the name that is found with the depth and the frame offset
\* of the Take.
compile_symbol_found(c, s) ==
  IF c.debug /\ get_sp(c.assembler) >= 0
       /\ get_sp(c.assembler) < find_var(c.frame_stack, s).frame_offset
    THEN Abort(c)
  ELSE Emit(c, <<I1("take", get_sp(c.assembler) - find_var(c.frame_stack, s).frame_offset),
                 I1("push_int", find_var(c.frame_stack, s).var_offset),
                 I1("op_binary", "OpPlus")>>)

compile_symbol(c, s, path) ==
  IF s = STD THEN Emit(c, <<I1("push_int", sys_ptr)>>)
  ELSE IF ~find_var(c.frame_stack, s).found
    THEN Abort(Note(c, Ev("no_var", path, get_ip(c.assembler),
                          c.frame_stack.cur_frame, s)))
  ELSE compile_symbol_found(
         Note(c, Ev("take", path, get_sp(c.assembler),
                    find_var(c.frame_stack, s).frame_offset, s)), s)

compile_member(c, node, path) ==
  IF ~Has(node, 1) THEN Abort(c)
  ELSE Emit(compile_dict_key(compile_value(c, Child(node, 1), path \o <<1>>),
                             Child(node, 0)),
            <<I0("get")>>)

compile_index(c, node, path) ==
  IF ~Has(node, 1) THEN Abort(c)
  ELSE Emit(compile_value(compile_value(c, Child(node, 1), path \o <<1>>),
                          Child(node, 0), path \o <<0>>),
            <<I0("get")>>)

compile_expr_match(c, node, path) ==
  CASE node.type_.tag = "Op" -> compile_op(c, node, path)
    [] node.type_.tag = "Member" -> compile_member(c, node, path)
    [] node.type_.tag = "Index" -> compile_index(c, node, path)
    [] node.type_.tag = "Dict" ->
         Emit(compile_pairs(c, node, path, 0), <<I1("push_dict", Len(node.body) \div 2)>>)
    [] node.type_.tag = "Array" ->
         Emit(compile_values(c, node, path, 0), <<I1("push_array", Len(node.body))>>)
    [] node.type_.tag = "Number" -> Emit(c, <<I1("push_float", F32(node.type_.n))>>)
    [] node.type_.tag = "String" -> Emit(c, <<I1("push_str", node.type_.s)>>)
    [] node.type_.tag = "Symbol" -> compile_symbol(c, node.type_.s, path)
    [] node.type_.tag = "Call" -> compile_call(c, node, path)
    [] node.type_.tag = "Function" -> compile_fn(c, node, path)
    [] OTHER -> Abort(c)

compile_expr(c, node, path) ==
  IF c.err THEN c ELSE compile_expr_match(c, node, path)

\* self.frame_stack.exit()
frame_stack_exit(c) ==
  IF c.err THEN c
  ELSE IF ~exit_ok(c.frame_stack) THEN Abort(c)
  ELSE [c EXCEPT !.frame_stack = exit(@)]

\* compile_fn from "clean up stack and jump back" on; sp as u32 + 1
\* overflows for a depth of -1
compile_fn_leave(c, label_bypass) ==
  IF c.err THEN c
  ELSE IF c.debug /\ get_sp(c.assembler) = -1 THEN Abort(c)
  ELSE frame_stack_exit(
         Emit(c, <<I1("pop", get_sp(c.assembler) + 1), I0("pop_sp"),
                   I1("push_int", 0), I("swap", 0, 1, 0), I0("jump"),
                   I1("fill_label", label_bypass)>>))

\* compile_fn after self.frame_stack.enter(); the history keeps the frame
\* the cursor is on and the offset the code of the literal starts at
compile_fn_entered(c, node, path) ==
  LET label_bypass == Len(c.assembler.labels)
      label_begin  == label_bypass + 1
      parents_len  == Len(parents(c.frame_stack))
      frame_size   == Len(At(c.frame_stack.frames, c.frame_stack.cur_frame).var_offsets)
      sp           == get_sp(c.assembler) + 1
  IN  IF ~Has(node, 1) \/ (c.debug /\ get_sp(c.assembler) = -1) THEN Abort(c)
      ELSE compile_fn_leave(
             compile_block(
               Emit(Note(c, Ev("compile_fn", path, c.frame_stack.cur_frame,
                                 get_ip(c.assembler), "")),
                    <<I0("gen_label"), I0("gen_label"),
                      I1("put_label", label_begin),
                      I("push_fn", parents_len, sp, frame_size),
                      I1("put_label", label_bypass), I0("jump"),
                      I1("fill_label", label_begin),
                      I1("push_sp", parents_len)>>),
               Child(node, 1), path \o <<1>>),
             label_bypass)

compile_fn(c, node, path) ==
  IF ~enter_ok(c.frame_stack) THEN Abort(c)
  ELSE compile_fn_entered([c EXCEPT !.frame_stack = enter(@)], node, path)

compile_return(c, node, path) ==
  LET sp == get_sp(c.assembler)
  IN  IF c.debug /\ sp = -1 THEN Abort(c)
      ELSE Emit(IF Len(node.body) > 0
                  THEN compile_value(Emit(c, <<I1("push_sp", sp)>>),
                                     Child(node, 0), path \o <<0>>)
                  ELSE Emit(c, <<I1("push_sp", sp), I1("push_int", 0)>>),
                <<I("swap", 0, sp + 1, 0), I1("pop", sp + 1),
                  I("swap", 0, 1, 0), I0("jump"), I0("pop_sp")>>)

compile_call(c, node, path) ==
  LET ret_label == Len(c.assembler.labels)
  IN  IF ~Has(node, 1) THEN Abort(Emit(c, <<I0("gen_label"), I1("put_label", ret_label)>>))
      ELSE Emit(compile_expr(
                  Emit(compile_values(
                         Emit(c, <<I0("gen_label"), I1("put_label", ret_label)>>),
                         Child(node, 1), path \o <<1>>, 0),
                       <<I1("push_int", Len(Child(node, 1).body))>>),
                  Child(node, 0), path \o <<0>>),
                <<I1("call", Len(Child(node, 1).body)), I1("fill_label", ret_label)>>)

\* compile_if from "if let Some(else_body)" on
compile_if_else(c, node, path, else_label) ==
  IF c.err THEN c
  ELSE LET out_label == Len(c.assembler.labels)
           jump_out  == <<I0("gen_label"), I1("put_label", out_label), I0("jump"),
                          I1("fill_label", else_label)>>
       IN  Emit(IF Has(node, 2)
                  THEN compile_block(Emit(c, jump_out), Child(node, 2), path \o <<2>>)
                  ELSE Emit(c, jump_out),
                <<I1("fill_label", out_label)>>)

\* a compile_if_then that branches on the condition as it is
compile_if_then_plain(c, node, path) ==
  IF c.err THEN c
  ELSE LET else_label == Len(c.assembler.labels)
       IN  compile_if_else(
             compile_block(
               Emit(c, <<I0("gen_label"), I1("put_label", else_label), I0("jump_if")>>),
               Child(node, 1), path \o <<1>>),
             node, path, else_label)

\* compile_if after the condition
compile_if_then(c, node, path) ==
  IF c.err THEN c
  ELSE LET else_label == Len(c.assembler.labels)
       IN  compile_if_else(
             compile_block(
               Emit(c, <<I1("op_unary", "OpNot"), I0("gen_label"),
                         I1("put_label", else_label), I0("jump_if")>>),
               Child(node, 1), path \o <<1>>),
             node, path, else_label)

compile_if(c, node, path) ==
  IF ~Has(node, 1) THEN Abort(c)
  ELSE compile_if_then(compile_value(c, Child(node, 0), path \o <<0>>), node, path)

\* compile_while after the condition
compile_while_body(c, node, path, begin) ==
  IF c.err THEN c
  ELSE LET out_label == Len(c.assembler.labels)
       IN  Emit(compile_block(
                  Emit(c, <<I1("op_unary", "OpNot"), I0("gen_label"),
                            I1("put_label", out_label), I0("jump_if")>>),
                  Child(node, 1), path \o <<1>>),
                <<I1("push_int", begin), I0("jump"), I1("fill_label", out_label)>>)

\* a compile_while that takes begin behind the condition
compile_while_late(c, node, path) ==
  IF ~Has(node, 1) THEN Abort(c)
  ELSE compile_while_body(compile_value(c, Child(node, 0), path \o <<0>>), node, path,
                          get_ip(compile_value(c, Child(node, 0), path \o <<0>>).assembler))

compile_while(c, node, path) ==
  IF ~Has(node, 1) THEN Abort(c)
  ELSE compile_while_body(compile_value(c, Child(node, 0), path \o <<0>>),
                          node, path, get_ip(c.assembler))

\* a compile that ends the top level as compile_fn ends a function body
compile_returning(t, root, debug) ==
  Emit(compile_block(
         Emit(Compiler_new(t, debug),
              <<I1("push_int", 0), I0("gen_label"), I1("put_label", 0),
                I("push_fn", 0, 0, Len(At(t.frames, 0).var_offsets)),
                I1("call", 0), I1("fill_label", 0)>>),
         root, <<>>),
       <<I1("pop", 1), I1("push_int", 0), I("swap", 0, 1, 0), I0("jump")>>)

\* Compiler::compile after self.frame_stack = build_frame_stack(ast)
compile(t, root, debug) ==
  compile_block(
    Emit(Compiler_new(t, debug),
         <<I1("push_int", 0), I0("gen_label"), I1("put_label", 0),
           I("push_fn", 0, 0, Len(At(t.frames, 0).var_offsets)),
           I1("call", 0), I1("fill_label", 0)>>),
    root, <<>>)

-----------------------------------------------------------------------------
(* Programs, as the token lists of their source texts.                      *)

Id(name) == <<Sym(<<name>>)>>

E_num == <<Num(<<"1">>)>>

E_str == <<Token_new("Str", <<"'", "s", "'">>)>>

S_assign(lhs, rhs) == lhs \o <<Tk("Assign")>> \o rhs \o <<Tk("End")>>

S_var(name, rhs) == <<Sym(KW_var)>> \o S_assign(Id(name), rhs)

S_if(cond, body) ==
  <<Sym(KW_if), Tk("LPar")>> \o cond \o <<Tk("RPar"), Tk("LBlock")>> \o body
    \o <<Tk("RBlock")>>

S_ifelse(cond, body, other) ==
  S_if(cond, body) \o <<Sym(KW_else), Tk("LBlock")>> \o other \o <<Tk("RBlock")>>

S_while(cond, body) ==
  <<Sym(KW_while), Tk("LPar")>> \o cond \o <<Tk("RPar"), Tk("LBlock")>> \o body
    \o <<Tk("RBlock")>>

S_return(e) == <<Sym(KW_return)>> \o e \o <<Tk("End")>>

S_expr(e) == e \o <<Tk("End")>>

E_call(f, args) == f \o <<Tk("LPar")>> \o args \o <<Tk("RPar")>>

E_index(obj, key) == obj \o <<Tk("LBr")>> \o key \o <<Tk("RBr")>>

E_member(obj, name) == obj \o <<Tk("Dot")>> \o Id(name)

E_bin(l, op, r) == l \o <<Tk(op)>> \o r

E_array(items) == <<Tk("LBr")>> \o items \o <<Tk("RBr")>>

E_dict(items) == <<Tk("LBlock")>> \o items \o <<Tk("RBlock")>>

E_fn(formals, body) ==
  <<Sym(<<"f", "n">>), Tk("LPar")>> \o formals \o <<Tk("RPar"), Tk("LBlock")>> \o body
    \o <<Tk("RBlock")>>

\* expressions without a function literal
PlainExprs ==
  { E_num, E_str, Id("a"), Id("b"), <<Sym(STD)>>,
    <<Tk("OpMinus")>> \o E_num, <<Tk("OpMinus")>> \o Id("a"),
    <<Tk("OpNot")>> \o Id("a"), <<Tk("OpPlus")>> \o Id("a"),
    E_bin(E_num, "OpPlus", Id("a")), E_bin(Id("a"), "OpMul", E_num),
    E_bin(Id("a"), "OpLs", E_num), E_bin(Id("a"), "OpAnd", E_num),
    E_member(Id("a"), "m"), E_index(Id("a"), E_num),
    E_array(<<>>), E_array(E_num \o <<Tk("Comma")>> \o Id("a")),
    E_dict(<<>>),
    E_dict(Id("k") \o <<Tk("Colon")>> \o E_num \o <<Tk("Comma")>> \o E_str
             \o <<Tk("Colon")>> \o Id("a")),
    E_call(Id("a"), <<>>), E_call(Id("a"), E_num \o <<Tk("Comma")>> \o Id("a")),
    E_call(E_member(Id("a"), "m"), E_num),
    <<Tk("LPar")>> \o Id("a") \o <<Tk("RPar")>> }

\* function literals: empty, assigning a formal, two formals
ShallowFns ==
  { E_fn(<<>>, <<>>),
    E_fn(Id("x"), S_assign(Id("x"), E_num)),
    E_fn(Id("a") \o <<Tk("Comma")>> \o Id("b"), S_assign(Id("y"), Id("a"))) }

\* a function literal whose body holds another
OuterFn == E_fn(Id("p"), S_assign(Id("g"), E_fn(<<>>, <<>>)))

\* function literals with locals and a global, returning a value, returning
\* a function, with control flow and a call statement in the body
BodyFns ==
  { E_fn(<<>>, S_var("v", E_num) \o S_assign(Id("v"), E_num) \o S_assign(Id("w"), Id("v"))),
    E_fn(Id("n"), S_return(Id("n"))),
    E_fn(<<>>, S_assign(Id("a"), E_num)),
    E_fn(<<>>, S_return(E_fn(<<>>, <<>>))),
    E_fn(Id("n"),
         S_if(Id("n"), S_return(Id("n")))
           \o S_while(Id("n"), S_assign(Id("n"), E_num) \o S_expr(E_call(Id("n"), <<>>)))) }

\* nested function literals whose inner body assigns a name of each scope:
\* a formal or a local of the enclosing function, a formal of its own, a
\* name declared nowhere
NestedFns ==
  { E_fn(Id("p"), S_var("u", E_num) \o S_assign(Id("g"), E_fn(Id("q"), S_assign(Id(x), E_num))))
    : x \in {"p", "u", "q", "z"} }

\* function literals with a formal twice, a formal named this, a formal
\* declared again by var
DupFns ==
  { E_fn(Id("x") \o <<Tk("Comma")>> \o Id("x"), <<>>),
    E_fn(<<Sym(THIS)>>, <<>>),
    E_fn(Id("x"), S_var("x", E_num)) }

\* a function literal inside another that returns the global it is bound to
ReturnNested ==
  E_fn(Id("p"), S_assign(Id("g"), E_fn(<<>>, S_return(Id("x")))))

FnExprs == ShallowFns \cup {OuterFn} \cup BodyFns

\* what stands in both holes of a statement with two
PairExprs == ShallowFns \cup {E_num, Id("a")}

Statements1(e) ==
  { S_assign(Id("x"), e), S_var("x", e), S_assign(E_member(Id("a"), "m"), e),
    S_return(e), S_expr(e), S_expr(E_call(e, <<>>)),
    S_if(e, S_assign(Id("x"), E_num)),
    S_while(e, S_assign(Id("x"), E_num)) }

Statements2(e1, e2) ==
  { S_assign(E_index(Id("a"), e1), e2),
    S_assign(E_member(e1, "m"), e2),
    S_expr(E_call(e1, e2)),
    S_assign(Id("x"), E_index(e1, e2)),
    S_assign(Id("x"), E_bin(e1, "OpPlus", e2)),
    S_assign(Id("x"), E_array(e1 \o <<Tk("Comma")>> \o e2)),
    S_assign(Id("x"), E_dict(Id("k") \o <<Tk("Colon")>> \o e1 \o <<Tk("Comma")>>
                               \o Id("j") \o <<Tk("Colon")>> \o e2)),
    S_if(e1, S_assign(Id("x"), e2)),
    S_ifelse(Id("a"), S_assign(Id("x"), e1), S_assign(Id("y"), e2)),
    S_while(e1, S_var("x", e2)),
    S_assign(Id("x"), e1) \o S_assign(Id("y"), e2) }

\* var a = 1; <statements> Eof
Program(stmts) == S_var("a", E_num) \o stmts \o <<Tk("Eof")>>

\* a function literal that holds another, beside a second function literal
OuterPairs(e) ==
  { S_expr(E_call(OuterFn, e)),
    S_assign(E_index(Id("a"), OuterFn), e),
    S_assign(Id("x"), E_index(OuterFn, e)) }

ProgramSources ==
  {<<Tk("Eof")>>}
    \cup {Program(s) : s \in UNION {Statements1(e) : e \in PlainExprs \cup FnExprs}}
    \cup {Program(s) : s \in UNION {Statements2(e1, e2) : e1 \in PairExprs, e2 \in PairExprs}}
    \cup {Program(s) : s \in UNION {OuterPairs(e) : e \in ShallowFns}}
    \cup {S_var("x", e) \o <<Tk("Eof")>> : e \in NestedFns \cup {ReturnNested}}
    \cup {Program(S_assign(Id("f"), e)) : e \in DupFns}

-----------------------------------------------------------------------------
(* main.rs process without -t and -p: parse, then Compiler::compile, which  *)
(* is build_frame_stack (the local pass, the global pass) and the code      *)
(* generation.  A panic ends the run.  hist is the history the steps log.   *)

Init ==
  /\ tokens \in ProgramSources
  /\ ast = EmptyNode
  /\ phase = "source"
  /\ IdleBackend

\* build_frame_stack: LocalPass over the tree, then fstack.reset()
LocalVisit ==
  /\ phase = "parsed"
  /\ \E v \in {local_pass(ast)} :
       /\ fstack' = v.fstack
       /\ hist' = hist \o v.log
       /\ phase' = IF v.err THEN "abort" ELSE "local"
  /\ UNCHANGED <<drv, tokens, ast, asm>>

\* build_frame_stack: GlobalPass over the tree, then fstack.reset()
GlobalVisit ==
  /\ phase = "local"
  /\ \E v \in {global_pass(fstack, ast)} :
       /\ fstack' = v.fstack
       /\ hist' = hist \o v.log
       /\ phase' = IF v.err THEN "abort" ELSE "analyzed"
  /\ UNCHANGED <<drv, tokens, ast, asm>>

\* Compiler::compile from push_int(0) on, in a debug or a release build
Compile ==
  /\ phase = "analyzed"
  /\ \E debug \in BOOLEAN :
       \E c \in {compile(fstack, ast, debug)} :
         /\ fstack' = c.frame_stack
         /\ asm' = c.assembler
         /\ hist' = hist \o c.log
         /\ phase' = IF c.err THEN "abort" ELSE "compiled"
  /\ UNCHANGED <<drv, tokens, ast>>

Next ==
  \/ Parse
  \/ LocalVisit
  \/ GlobalVisit
  \/ Compile

Spec == Init /\ [][Next]_vars

-----------------------------------------------------------------------------
(* Claims about the analyzer and the code generator, over the history of    *)
(* a run.  A node is named by its path in ast.                              *)

RECURSIVE PathsOf(_)
PathsOf(node) ==
  {<<>>} \cup UNION { { <<i - 1>> \o q : q \in PathsOf(node.body[i]) }
                      : i \in 1..Len(node.body) }

RECURSIVE NodeAt(_, _)
NodeAt(node, path) ==
  IF path = <<>> THEN node ELSE NodeAt(Child(node, Head(path)), Tail(path))

IsProperPrefix(p, q) == Len(p) < Len(q) /\ SubSeq(q, 1, Len(p)) = p

TagAt(p) == NodeAt(ast, p).type_.tag

\* the Function nodes around the node at p, the innermost included
FnsAround(p) == { f \in PathsOf(ast) : IsProperPrefix(f, p) /\ TagAt(f) = "Function" }

\* the events of one kind in the history
Events(k) == { i \in 1..Len(hist) : hist[i].k = k }

Analyzed == phase \in {"analyzed", "compiled"}

\* the names of the formals of the Function node at f
Formals(f) == { Child(NodeAt(ast, f), 0).body[i].type_.s
                : i \in 1..Len(Child(NodeAt(ast, f), 0).body) }

\* the names the var statements declare whose nearest Function node is the
\* one at f; f = <<-1>> stands for the top level
VarsOf(f) ==
  { Child(NodeAt(ast, q), 0).type_.s
    : q \in { q \in PathsOf(ast) :
                /\ TagAt(q) = "StmtVar"
                /\ IF f = <<-1>> THEN FnsAround(q) = {}
                   ELSE f \in FnsAround(q)
                        /\ \A g \in FnsAround(q) : g = f \/ IsProperPrefix(g, f) } }

\* the assignments to a plain name inside a function body
AssignsInFns ==
  { p \in PathsOf(ast) : /\ TagAt(p) = "Assign"
                         /\ IsSymbol(Child(NodeAt(ast, p), 0))
                         /\ FnsAround(p) # {} }

Assigned(p) == Child(NodeAt(ast, p), 0).type_.s

Undeclared(p) ==
  /\ Assigned(p) \notin VarsOf(<<-1>>)
  /\ \A f \in FnsAround(p) : Assigned(p) \notin VarsOf(f)

IsGlobal(name) == Contains(At(fstack.frames, 0).var_offsets, name)

\* C2: each time compile_fn calls enter() the cursor is on the frame the
\* local pass created for the same Function node.
C2_SameFrame ==
  \A i \in Events("compile_fn") :
    \E j \in Events("frame") : hist[j].path = hist[i].path /\ hist[j].a = hist[i].a

\* C3 as claimed: a name assigned in a function body and declared by no var
\* statement of that function, of an enclosing function or of the top level
\* is a slot of frame 0 after build_frame_stack.
C3_UndeclaredIsGlobal ==
  Analyzed => \A p \in AssignsInFns : Undeclared(p) => IsGlobal(Assigned(p))

\* C3: a name assigned in a function body that is declared by no var
\* statement and is no formal argument of that function or of an enclosing
\* function, and is not declared by var at top level, is a slot of frame 0
\* after build_frame_stack.
C3_UnboundIsGlobal ==
  Analyzed =>
    \A p \in AssignsInFns :
      (Undeclared(p) /\ \A f \in FnsAround(p) : Assigned(p) \notin Formals(f))
        => IsGlobal(Assigned(p))

\* an assignment two functions deep to a name bound nowhere has made a global
C3_Witness ==
  /\ phase = "analyzed"
  /\ \E p \in AssignsInFns :
       /\ Cardinality(FnsAround(p)) = 2
       /\ Undeclared(p)
       /\ \A f \in FnsAround(p) : Assigned(p) \notin Formals(f)
       /\ Assigned(p) # THIS
       /\ IsGlobal(Assigned(p))

\* the frame the local pass created for the Function node at path f
FrameOf(f) == hist[CHOOSE j \in Events("frame") : hist[j].path = f].a

SlotsOf(f) == At(fstack.frames, FrameOf(f)).var_offsets

FormalList(f) == Child(NodeAt(ast, f), 0).body

FnPaths == { hist[j].path : j \in Events("frame") }

LocalDone == phase \in {"local", "analyzed", "compiled"}

\* C4 as claimed: slot 0 of the frame of a function with n >= 1 formals is
\* `this` and the formals are slots 1..n in reverse declaration order.
C4_ThisFirst ==
  LocalDone =>
    \A f \in FnPaths :
      Len(FormalList(f)) >= 1 =>
        /\ At(SlotsOf(f), 0) = THIS
        /\ \A i \in 1..Len(FormalList(f)) :
             At(SlotsOf(f), i) = FormalList(f)[Len(FormalList(f)) - i + 1].type_.s

\* C4: the formals of a function with n >= 1 formals are slots 0..n-1 of
\* its frame in reverse declaration order, the last formal at slot 0, and
\* `this` is slot n.
C4_FormalsFirst ==
  LocalDone =>
    \A f \in FnPaths :
      Len(FormalList(f)) >= 1 =>
        /\ At(SlotsOf(f), Len(FormalList(f))) = THIS
        /\ \A i \in 1..Len(FormalList(f)) :
             At(SlotsOf(f), i - 1) = FormalList(f)[Len(FormalList(f)) - i + 1].type_.s

\* the frame of a function of two formals right after the local pass
C4_Witness ==
  /\ phase = "local"
  /\ \E f \in FnPaths :
       /\ Len(FormalList(f)) = 2
       /\ SlotsOf(f) = <<FormalList(f)[2].type_.s, FormalList(f)[1].type_.s, THIS>>

NeutralTags == {"Assign", "StmtVar", "Call", "StmtIf", "StmtIfElse", "StmtWhile"}

\* C5: the simulated depth after compile_block returns from an Assign, a
\* StmtVar, a call statement, an If, an IfElse or a While equals the depth
\* on entry.
C5_SpNeutral ==
  \A i \in Events("compile_block") :
    hist[i].t \in NeutralTags => hist[i].a = hist[i].b

\* a statement of each kind returned, and an assignment that holds a
\* function literal returned at a depth above 0 inside a function body
C5_Witness ==
  /\ phase = "compiled"
  /\ \E i \in Events("compile_block") :
       /\ hist[i].t = "Assign"
       /\ hist[i].a > 0
       /\ hist[i].a = hist[i].b
       /\ \E f \in FnPaths : IsProperPrefix(hist[i].path, f)
       /\ \E f \in FnPaths : IsProperPrefix(f, hist[i].path)

\* the operand of the PushInt at a site of the file
Word(file, site) ==
  file[site + 2] + 256 * file[site + 3] + 65536 * file[site + 4]
    + 16777216 * file[site + 5]

\* the offsets fill_label calls of a label patched in
FillsOf(label) == { i \in Events("fill_label") : hist[i].a = label }

\* C6: after a compile that completes, every put_label site is a PushInt
\* whose operand is the offset a later fill_label of its label patched in,
\* not the placeholder, and every label of gen_label has been filled.
C6_LabelsClosed ==
  phase = "compiled" =>
    /\ \A i \in Events("put_label") :
         /\ asm.file[hist[i].b + 1] = OpCode.PushInt
         /\ Word(asm.file, hist[i].b) # DEAD
         /\ \E j \in FillsOf(hist[i].a) :
              j > i /\ Word(asm.file, hist[i].b) = hist[j].b
    /\ \A i \in Events("gen_label") : FillsOf(hist[i].a) # {}

\* a compile with the labels of a function literal, an If and a call
C6_Witness ==
  /\ phase = "compiled"
  /\ Cardinality(Events("put_label")) >= 5
  /\ \E i \in Events("put_label") : \E j \in FillsOf(hist[i].a) :
       j > i + 1 /\ Word(asm.file, hist[i].b) = hist[j].b /\ hist[j].b > hist[i].b + 5

-----------------------------------------------------------------------------
(* add_child, enter, exit and reset called in any order on a frame-stack    *)
(* tree of up to MaxFrames frames; a call that would panic is not made.     *)

Tree_add_child ==
  /\ Len(fstack.links) < MaxFrames
  /\ fstack' = add_child(fstack)
  /\ UNCHANGED <<drv, tokens, ast, phase, asm, hist>>

Tree_enter ==
  /\ enter_ok(fstack)
  /\ fstack' = enter(fstack)
  /\ UNCHANGED <<drv, tokens, ast, phase, asm, hist>>

Tree_exit ==
  /\ exit_ok(fstack)
  /\ fstack' = exit(fstack)
  /\ UNCHANGED <<drv, tokens, ast, phase, asm, hist>>

Tree_reset ==
  /\ fstack' = reset(fstack)
  /\ UNCHANGED <<drv, tokens, ast, phase, asm, hist>>

NextTree == Tree_add_child \/ Tree_enter \/ Tree_exit \/ Tree_reset

SpecTree == InitFS /\ [][NextTree]_vars

\* how often a sequence holds a name
Count(s, name) == Cardinality({ i \in 1..Len(s) : s[i] = name })

\* the frame ids of a tree, the parent and the children of a frame
FrameIds(t) == 0..(Len(t.links) - 1)

ParentOf(t, f) == At(t.links, f).parent

ChildrenOf(t, f) == At(t.links, f).children

\* the frame k parent links above f
RECURSIVE Ancestor(_, _, _)
Ancestor(t, f, k) == IF k = 0 THEN f ELSE Ancestor(t, ParentOf(t, f), k - 1)

\* the nesting depth of a frame: 0 for frame 0
RECURSIVE DepthOf(_, _)
DepthOf(t, f) == IF f = 0 THEN 0 ELSE 1 + DepthOf(t, ParentOf(t, f))

\* C29: frames and links are of one length, the cursor is a frame id,
\* frame 0 alone is its own parent, every other frame has a parent of a
\* smaller id and stands once in the child list of that parent and in no
\* other, and every child list is in strictly increasing order.
C29_WellFormed ==
  /\ Len(fstack.frames) = Len(fstack.links)
  /\ fstack.cur_frame \in FrameIds(fstack)
  /\ \A f \in FrameIds(fstack) : (ParentOf(fstack, f) = f) <=> (f = 0)
  /\ \A f \in FrameIds(fstack) \ {0} :
       /\ ParentOf(fstack, f) < f
       /\ \A g \in FrameIds(fstack) :
            Count(ChildrenOf(fstack, g), f) = IF g = ParentOf(fstack, f) THEN 1 ELSE 0
  /\ \A g \in FrameIds(fstack) :
       /\ Count(ChildrenOf(fstack, g), 0) = 0
       /\ \A i \in 1..(Len(ChildrenOf(fstack, g)) - 1) :
            ChildrenOf(fstack, g)[i] < ChildrenOf(fstack, g)[i + 1]

\* a tree of five frames with siblings under the root and under frame 1,
\* the last of them added after a reset, the cursor back in frame 1
C29_Witness ==
  /\ Len(fstack.links) = 5
  /\ ChildrenOf(fstack, 0) = <<1, 3>>
  /\ ChildrenOf(fstack, 1) = <<2, 4>>
  /\ fstack.cur_frame = 1
  /\ fstack.next_frame = 4

\* C24 as claimed: parents() is the path from the parent of the cursor
\* upward without the root: one entry less than the depth of the cursor,
\* never frame 0, empty for the root and for a child of the root.
C24_ParentsWithoutRoot ==
  /\ Len(parents(fstack)) =
       IF fstack.cur_frame = 0 THEN 0 ELSE DepthOf(fstack, fstack.cur_frame) - 1
  /\ ~Contains(parents(fstack), 0)

\* C24: parents() is the path from the parent of the cursor upward, root
\* included: as many entries as the depth of the cursor, the k-th of them
\* the frame k links above it, frame 0 the last; it is empty for the root
\* alone.
C24_ParentsWithRoot ==
  /\ Len(parents(fstack)) = DepthOf(fstack, fstack.cur_frame)
  /\ \A k \in 1..Len(parents(fstack)) :
       parents(fstack)[k] = Ancestor(fstack, fstack.cur_frame, k)
  /\ fstack.cur_frame # 0 => Last(parents(fstack)) = 0
  /\ (parents(fstack) = <<>>) <=> (fstack.cur_frame = 0)

\* the cursor two frames below the root: parents() is its parent and the root
C24_Witness ==
  /\ DepthOf(fstack, fstack.cur_frame) = 2
  /\ parents(fstack) = <<ParentOf(fstack, fstack.cur_frame), 0>>
  /\ ParentOf(fstack, fstack.cur_frame) # 0

-----------------------------------------------------------------------------
(* put_var and put_var_global, called in any order with any names on the    *)
(* frame stack of a program: the root alone, or the root and the frame of   *)
(* a function, without formals or with two, that the cursor has entered,    *)
(* or these and the frame of a function inside it with the cursor there.    *)

MaxPuts == 4

VarNames == {THIS, <<"a">>, <<"b">>, <<"c">>}

EnteredChild == enter(add_child(FrameStackTree_new))

\* the frame of the child with the formals a and b
WithFormals(t) ==
  [t EXCEPT !.frames = SetAt(@, 1, [var_offsets |->
                         insert_arg(insert_arg(<<THIS>>, <<"a">>), <<"b">>)])]

InitVars ==
  /\ fstack \in
       { FrameStackTree_new, EnteredChild, WithFormals(EnteredChild),
         enter(add_child(EnteredChild)),
         enter(add_child(WithFormals(EnteredChild))) }
  /\ drv = DrvInit
  /\ IdleRest

\* LocalPass::enter_var
Vars_put_var ==
  /\ Len(hist) < MaxPuts
  /\ \E name \in VarNames :
       /\ fstack' = put_var(fstack, name)
       /\ hist' = Append(hist, [name |-> name, frame |-> fstack.cur_frame,
                                before |-> fstack])
  /\ UNCHANGED <<drv, tokens, ast, phase, asm>>

\* GlobalPass::enter_assign
Vars_put_var_global ==
  /\ Len(hist) < MaxPuts
  /\ \E name \in VarNames :
       /\ fstack' = put_var_global(fstack, name)
       /\ hist' = Append(hist, [name |-> name, frame |-> 0, before |-> fstack])
  /\ UNCHANGED <<drv, tokens, ast, phase, asm>>

NextVars == Vars_put_var \/ Vars_put_var_global

SpecVars == InitVars /\ [][NextVars]_vars

\* the frame stack after the k-th put
StackAfter(k) == IF k < Len(hist) THEN hist[k + 1].before ELSE fstack

Slots(t, f) == At(t.frames, f).var_offsets

\* C13: a put of a name the frame holds leaves its slots as they were, a
\* put of a new name appends it behind them, and every name put is held
\* once by the frame it was put in.
C13_PutOnce ==
  \A k \in 1..Len(hist) :
    /\ Slots(StackAfter(k), hist[k].frame) =
         IF Contains(Slots(hist[k].before, hist[k].frame), hist[k].name)
           THEN Slots(hist[k].before, hist[k].frame)
           ELSE Append(Slots(hist[k].before, hist[k].frame), hist[k].name)
    /\ Count(Slots(fstack, hist[k].frame), hist[k].name) = 1

\* `this` and a name put twice in a function's frame, between two new names
C13_Witness ==
  /\ Len(hist) = 4
  /\ fstack.cur_frame = 1
  /\ \A k \in 1..4 : hist[k].frame = 1
  /\ hist[1].name = <<"c">> /\ hist[2].name = THIS
  /\ hist[3].name = <<"c">> /\ hist[4].name = <<"a">>
  /\ Slots(fstack, 1) = <<THIS, <<"c">>, <<"a">>>>

\* the hops from the cursor of the fstack to the frames that hold the name
Holders(name) ==
  { k \in 0..DepthOf(fstack, fstack.cur_frame) :
      Contains(Slots(fstack, Ancestor(fstack, fstack.cur_frame, k)), name) }

Nearest(name) == CHOOSE k \in Holders(name) : \A j \in Holders(name) : k <= j

\* C23: find_var finds a name exactly when a frame on the path from the
\* cursor to the root holds it, and then its result is the nearest such
\* frame, the hops to it and the first index of the name in it.
C23_NearestFrame ==
  \A name \in VarNames :
    /\ find_var(fstack, name).found <=> (Holders(name) # {})
    /\ find_var(fstack, name).found =>
         /\ find_var(fstack, name).frame_offset = Nearest(name)
         /\ find_var(fstack, name).frame_id
              = Ancestor(fstack, fstack.cur_frame, Nearest(name))
         /\ find_var(fstack, name).var_offset
              = Position(Slots(fstack, find_var(fstack, name).frame_id), name)
         /\ At(Slots(fstack, find_var(fstack, name).frame_id),
               find_var(fstack, name).var_offset) = name

\* the cursor two frames below the root: a is in its frame and in its
\* parent's, b in its parent's alone, c in the root's alone
C23_Witness ==
  /\ fstack.cur_frame = 2
  /\ Holders(<<"a">>) = {0, 1}
  /\ find_var(fstack, <<"a">>).frame_id = 2
  /\ find_var(fstack, <<"b">>).frame_offset = 1
  /\ find_var(fstack, <<"c">>).frame_offset = 2
  /\ find_var(fstack, <<"c">>).frame_id = 0
  /\ find_var(fstack, <<"c">>).var_offset = 1

-----------------------------------------------------------------------------
(* Claims about the frames the analyzer builds.                             *)

FnNodes == { p \in PathsOf(ast) : TagAt(p) = "Function" }

\* the frame of the innermost Function node around the node at q, frame 0
\* when there is none
FrameAround(q) ==
  IF FnsAround(q) = {} THEN 0
  ELSE FrameOf(CHOOSE f \in FnsAround(q) : \A g \in FnsAround(q) : Len(g) <= Len(f))

VarStmts == { q \in PathsOf(ast) : TagAt(q) = "StmtVar" }

VarName(q) == Child(NodeAt(ast, q), 0).type_.s

\* the names the local pass owes to frame fr: `this`, the formals of its
\* function and the names of the var statements directly inside it
OwedTo(fr) ==
  {THIS} \cup UNION { Formals(f) : f \in { f \in FnNodes : FrameOf(f) = fr } }
         \cup { VarName(q) : q \in { q \in VarStmts : FrameAround(q) = fr } }

\* C14: after the local pass alone there is one frame per Function node
\* and the root, the name of every var statement is a slot of the frame of
\* the innermost function around it (frame 0 at top level), and no frame
\* holds a name that is not `this`, a formal of its function or the name of
\* a var statement directly inside it.
C14_VarIsLocal ==
  phase = "local" =>
    /\ Len(fstack.frames) = 1 + Cardinality(FnNodes)
    /\ \A q \in VarStmts : Contains(Slots(fstack, FrameAround(q)), VarName(q))
    /\ \A fr \in 0..(Len(fstack.frames) - 1) :
         \A i \in 1..Len(Slots(fstack, fr)) : Slots(fstack, fr)[i] \in OwedTo(fr)

\* a var statement inside a function that holds another function: its name
\* is in the function's frame only
C14_Witness ==
  /\ phase = "local"
  /\ Len(fstack.frames) = 3
  /\ \E q \in VarStmts :
       /\ FrameAround(q) = 1
       /\ Contains(Slots(fstack, 1), VarName(q))
       /\ ~Contains(Slots(fstack, 0), VarName(q))
       /\ ~Contains(Slots(fstack, 2), VarName(q))

\* s is t, or t with names appended
Extends(s, t) == Len(t) <= Len(s) /\ SubSeq(s, 1, Len(t)) = t

\* C15: the global pass and the code generation keep the number of frames
\* and every frame's parent and children; the global pass only appends
\* names to frame 0 and the code generation changes no slot.
C15_ShapeFrozen ==
  [][ /\ phase \in {"local", "analyzed"} =>
           /\ fstack'.links = fstack.links
           /\ Len(fstack'.frames) = Len(fstack.frames)
           /\ \A fr \in 1..(Len(fstack.frames) - 1) :
                Slots(fstack', fr) = Slots(fstack, fr)
           /\ Extends(Slots(fstack', 0), Slots(fstack, 0))
      /\ phase = "analyzed" => fstack'.frames = fstack.frames ]_vars

\* a compiled program of three frames whose global pass made a global
C15_Witness ==
  /\ phase = "compiled"
  /\ Len(fstack.frames) = 3
  /\ \E p \in AssignsInFns :
       /\ Undeclared(p)
       /\ \A f \in FnsAround(p) : Assigned(p) \notin Formals(f)
       /\ Position(Slots(fstack, 0), Assigned(p)) >= 1

-----------------------------------------------------------------------------
(* Claims about the bytes of the image.                                     *)

Compiled == phase = "compiled"

\* the image of the empty program with a root frame of size slots
EmptyImage(size) ==
  <<OpCode.PushInt, 0, 0, 0, 0,
    OpCode.PushInt, 24, 0, 0, 0,
    OpCode.PushFn, 0, 0, 0, 0, 0, 0, 0, 0, size, 0, 0, 0,
    OpCode.Call>>

\* C16 as claimed: the image of the empty program is the 24 bytes PushInt 0,
\* PushInt 24, PushFn 0 0 0, Call.
C16_EmptyImageSize0 == (Compiled /\ ast.body = <<>>) => asm.file = EmptyImage(0)

\* C16: the image of the empty program is the 24 bytes PushInt 0, PushInt 24,
\* PushFn 0 0 1, Call: the root frame holds `this`, and 24 is the offset
\* behind Call, the end of the file.
C16_EmptyImage ==
  (Compiled /\ ast.body = <<>>) =>
    /\ asm.file = EmptyImage(1)
    /\ Len(asm.file) = 24 /\ asm.pos = 24

C16_Witness ==
  /\ Compiled
  /\ tokens = <<Tk("Eof")>>
  /\ ast.body = <<>>
  /\ asm.file = EmptyImage(1)

\* the last statement of the top level
LastStmt == Last(ast.body)

\* the file ends with the bytes s
EndsWith(s) ==
  Len(asm.file) >= Len(s) /\ SubSeq(asm.file, Len(asm.file) - Len(s) + 1, Len(asm.file)) = s

\* C17 as claimed: the image of every compiled program ends with a Jump.
C17_EndsWithJump == Compiled => EndsWith(<<OpCode.Jump>>)

\* C17: the top level gets no return sequence: the image ends with the
\* code of the last top-level statement, Store for an assignment or a var
\* statement and Pop 1 for a call statement, and with the Call of the
\* preamble when the program is empty.
C17_EndsWithLastStatement ==
  Compiled =>
    /\ ast.body = <<>> => EndsWith(<<OpCode.Call>>) /\ Len(asm.file) = 24
    /\ (ast.body # <<>> /\ LastStmt.type_.tag \in {"Assign", "StmtVar"})
         => EndsWith(<<OpCode.Store>>)
    /\ (ast.body # <<>> /\ LastStmt.type_.tag = "Call")
         => EndsWith(<<OpCode.Pop, 1, 0, 0, 0>>)

\* a program that ends with the assignment of a function literal: the
\* literal's body has its return sequence, the top level has none
C17_Witness ==
  /\ Compiled
  /\ Len(ast.body) = 2
  /\ LastStmt.type_.tag = "Assign"
  /\ Child(LastStmt, 1).type_.tag = "Function"
  /\ EndsWith(<<OpCode.Store>>)

\* C18: the PushFn of a function literal inside k function literals
\* carries the parent count k + 1, and the simulated depth its body starts
\* at is that number.
C18_ParentCount ==
  \A i \in Events("compile_fn") :
    /\ asm.file[hist[i].b + 6] = OpCode.PushFn
    /\ Word(asm.file, hist[i].b + 5) = Cardinality(FnsAround(hist[i].path)) + 1
    /\ \A j \in Events("compile_block") :
         hist[j].path = hist[i].path \o <<1>>
           => hist[j].a = Cardinality(FnsAround(hist[i].path)) + 1

\* the span events of the statements of one kind, and the event of the
\* value or of the block compiled for the child at path p
SpansOf(tag) == { i \in Events("span") : hist[i].t = tag }

ValueAt(p) == CHOOSE i \in Events("value") : hist[i].path = p

SpanAt(p) == CHOOSE i \in Events("span") : hist[i].path = p

HasEvent(k, p) == \E i \in Events(k) : hist[i].path = p

\* the byte at an offset of the file, and a PushInt at an offset with an
\* operand
Byte(offset) == asm.file[offset + 1]

PushIntAt(offset, operand) ==
  Byte(offset) = OpCode.PushInt /\ Word(asm.file, offset) = operand

\* the code of a while statement is the condition, Not, PushInt, JumpIf,
\* the body, PushInt, Jump
WhileLayout(w, cond, body) ==
  /\ hist[cond].a = hist[w].a
  /\ Byte(hist[cond].b) = OpCode.Not
  /\ PushIntAt(hist[cond].b + 1, hist[w].b)
  /\ Byte(hist[cond].b + 6) = OpCode.JumpIf
  /\ hist[body].a = hist[cond].b + 7
  /\ PushIntAt(hist[body].b, hist[cond].a)
  /\ Byte(hist[body].b + 5) = OpCode.Jump
  /\ hist[w].b = hist[body].b + 6

\* C19: the code of a while statement is, around the code of the condition
\* and of the body, Not, the PushInt of the exit label and one JumpIf, then
\* one PushInt and Jump back to the offset the condition starts at; the
\* exit label is the offset behind that Jump.
C19_WhileShape ==
  \A w \in SpansOf("StmtWhile") :
    /\ HasEvent("value", hist[w].path \o <<0>>)
    /\ HasEvent("span", hist[w].path \o <<1>>)
    /\ WhileLayout(w, ValueAt(hist[w].path \o <<0>>), SpanAt(hist[w].path \o <<1>>))

\* a while statement compiled whose condition is more than one instruction
\* and whose body is not empty
C19_Witness ==
  /\ Compiled
  /\ \E w \in SpansOf("StmtWhile") :
       /\ hist[ValueAt(hist[w].path \o <<0>>)].b > hist[w].a + 5
       /\ hist[SpanAt(hist[w].path \o <<1>>)].b > hist[SpanAt(hist[w].path \o <<1>>)].a
       /\ Byte(hist[w].b - 1) = OpCode.Jump

\* the code of an if statement up to the end of the then-branch: the
\* condition, Not, PushInt, JumpIf, the branch, PushInt, Jump
IfLayout(s, cond, then) ==
  /\ hist[cond].a = hist[s].a
  /\ Byte(hist[cond].b) = OpCode.Not
  /\ PushIntAt(hist[cond].b + 1, hist[then].b + 6)
  /\ Byte(hist[cond].b + 6) = OpCode.JumpIf
  /\ hist[then].a = hist[cond].b + 7
  /\ PushIntAt(hist[then].b, hist[s].b)
  /\ Byte(hist[then].b + 5) = OpCode.Jump

IfSpans == SpansOf("StmtIf") \cup SpansOf("StmtIfElse")

\* C20: the code of an if statement is, around the code of the condition
\* and of the branches, one JumpIf and one Jump; the label of the JumpIf is
\* the offset behind the Jump that ends the then-branch, where the
\* else-branch starts, and the label of the Jump is the offset behind the
\* else-branch, the same offset when there is no else-branch.
C20_IfShape ==
  \A s \in IfSpans :
    /\ HasEvent("value", hist[s].path \o <<0>>)
    /\ HasEvent("span", hist[s].path \o <<1>>)
    /\ IfLayout(s, ValueAt(hist[s].path \o <<0>>), SpanAt(hist[s].path \o <<1>>))
    /\ IF Has(NodeAt(ast, hist[s].path), 2)
         THEN /\ HasEvent("span", hist[s].path \o <<2>>)
              /\ hist[SpanAt(hist[s].path \o <<2>>)].a
                   = hist[SpanAt(hist[s].path \o <<1>>)].b + 6
              /\ hist[SpanAt(hist[s].path \o <<2>>)].b = hist[s].b
         ELSE hist[s].b = hist[SpanAt(hist[s].path \o <<1>>)].b + 6

\* an if statement with both branches compiled, neither of them empty
C20_Witness ==
  /\ Compiled
  /\ \E s \in IfSpans :
       /\ Has(NodeAt(ast, hist[s].path), 2)
       /\ hist[SpanAt(hist[s].path \o <<1>>)].b > hist[SpanAt(hist[s].path \o <<1>>)].a
       /\ hist[SpanAt(hist[s].path \o <<2>>)].b > hist[SpanAt(hist[s].path \o <<2>>)].a
       /\ Word(asm.file, hist[SpanAt(hist[s].path \o <<1>>)].b) = hist[s].b

\* an if statement without an else-branch compiled: both labels are the
\* offset behind the statement
C20_WitnessNoElse ==
  /\ Compiled
  /\ \E s \in IfSpans :
       /\ ~Has(NodeAt(ast, hist[s].path), 2)
       /\ Word(asm.file, hist[ValueAt(hist[s].path \o <<0>>)].b + 1) = hist[s].b

-----------------------------------------------------------------------------
(* The tokenizer (tokenizer.rs).  A Tokenizer is [text, pos, start, token,  *)
(* tokens, err]: text is the source as a sequence of characters, pos the    *)
(* offset the iterator `it` stands at (Len(text) when it is exhausted),     *)
(* err is set where tokenize returns Err.  line and col feed the error      *)
(* message only and are left out.                                           *)

Letters ==
  {"A", "B", "C", "D", "E", "F", "G", "H", "I", "J", "K", "L", "M",
   "N", "O", "P", "Q", "R", "S", "T", "U", "V", "W", "X", "Y", "Z",
   "a", "b", "c", "d", "e", "f", "g", "h", "i", "j", "k", "l", "m",
   "n", "o", "p", "q", "r", "s", "t", "u", "v", "w", "x", "y", "z"}

DigitChars == { Digits[i] : i \in 1..Len(Digits) }

\* Option<char>::None
NoChar == ""

Tokenizer_new(text) ==
  [text |-> text, pos |-> 0, start |-> 0, token |-> Token_new_empty,
   tokens |-> <<>>, err |-> FALSE]

peek_char(z) == IF z.pos < Len(z.text) THEN z.text[z.pos + 1] ELSE NoChar

\* self.peek_pos().unwrap_or(self.text.len())
peek_pos(z) == IF z.pos < Len(z.text) THEN z.pos ELSE Len(z.text)

\* &self.text[self.start..offset], offset being self.start when the
\* iterator is exhausted
cur_text(z) ==
  SubSeq(z.text, z.start + 1, IF z.pos < Len(z.text) THEN z.pos ELSE z.start)

new_token(z, t) == [z EXCEPT !.token = Token_new(t, <<>>)]

Tokenizer_reset(z) == [z EXCEPT !.token = Token_new_empty, !.start = peek_pos(z)]

commit(z) ==
  Tokenizer_reset([z EXCEPT !.tokens = Append(@, Token_new(z.token.type_, cur_text(z)))])

\* a next that leaves the iterator where it is
next_stay(z) == z

next(z) == [z EXCEPT !.pos = IF @ < Len(z.text) THEN @ + 1 ELSE @]

\* the token types of the characters that are a token of their own
SingleChar ==
  [c \in {"+", "-", "(", ")", "[", "]", ".", "{", "}", ";", ":", ",", "*", "%"} |->
     CASE c = "+" -> "OpPlus"  [] c = "-" -> "OpMinus"
       [] c = "(" -> "LPar"    [] c = ")" -> "RPar"
       [] c = "[" -> "LBr"     [] c = "]" -> "RBr"
       [] c = "." -> "Dot"     [] c = "{" -> "LBlock"
       [] c = "}" -> "RBlock"  [] c = ";" -> "End"
       [] c = ":" -> "Colon"   [] c = "," -> "Comma"
       [] c = "*" -> "OpMul"   [] c = "%" -> "OpMod"]

\* the token types of the characters that are a token alone and another
\* one with "=" behind them
WithEq ==
  [c \in {"=", "!", "<", ">"} |->
     CASE c = "=" -> <<"Assign", "OpEq">>  [] c = "!" -> <<"OpNot", "OpNotEq">>
       [] c = "<" -> <<"OpLs", "OpLsEq">>  [] c = ">" -> <<"OpGt", "OpGtEq">>]

\* the characters that are a token when doubled
Doubled == [c \in {"|", "&"} |-> IF c = "|" THEN "OpOr" ELSE "OpAnd"]

\* the `_` arm of the match in tokenize: no token is under construction
tokenize_start(z, c) ==
  CASE c \in Letters -> next(new_token(z, "Sym"))
    [] c = "/" ->
         IF peek_char(next(z)) = "/" THEN new_token(next(next(z)), "Comment")
         ELSE commit(new_token(next(z), "OpDiv"))
    [] c \in DigitChars -> next(new_token(z, "Num"))
    [] c = "'" -> next(new_token(z, "Str"))
    [] c \in DOMAIN SingleChar -> commit(next(new_token(z, SingleChar[c])))
    [] c \in DOMAIN WithEq ->
         IF peek_char(next(z)) = "="
           THEN commit(new_token(next(next(new_token(z, WithEq[c][1]))), WithEq[c][2]))
           ELSE commit(next(new_token(z, WithEq[c][1])))
    [] c \in DOMAIN Doubled ->
         IF peek_char(next(z)) = c
           THEN commit(new_token(next(next(z)), Doubled[c]))
           ELSE [next(z) EXCEPT !.err = TRUE]
    [] c \in {" ", "\t", "\n"} -> Tokenizer_reset(next(z))
    [] OTHER -> [z EXCEPT !.err = TRUE]

\* one round of the loop of tokenize on the character c = peek_char
tokenize_step(z, c) ==
  CASE z.token.type_ = "Sym" ->
         IF c \in Letters \cup DigitChars \cup {"_"} THEN next(z) ELSE commit(z)
    [] z.token.type_ = "Num" ->
         IF c \in DigitChars \/ (c = "." /\ ~Contains(cur_text(z), "."))
           THEN next(z) ELSE commit(z)
    [] z.token.type_ = "Str" ->
         IF c = "'" THEN commit(next(z)) ELSE next(z)
    [] z.token.type_ = "Comment" ->
         IF c = "\n" THEN Tokenizer_reset(next(z)) ELSE next(z)
    [] OTHER -> tokenize_start(z, c)

\* tokenize behind the loop
tokenize_end(z) == commit(new_token(z, "Eof"))

-----------------------------------------------------------------------------
(* Tokenizer::new(text).tokenize() on every text of up to MaxText           *)
(* characters of SourceChars, one round of the loop at a time.  drv is the  *)
(* Tokenizer, tokens the list tokenize returns.                             *)

MaxText == 4

SourceChars == {"a", "_", "1", ".", ";", " ", "\n", "/", "'", "=", "|"}

Texts == UNION { [1..n -> SourceChars] : n \in 0..MaxText }

InitTok ==
  /\ drv \in { Tokenizer_new(text) : text \in Texts }
  /\ fstack = FrameStackTree_new
  /\ tokens = <<>>
  /\ ast = [type_ |-> [tag |-> "Empty"], body |-> <<>>]
  /\ phase = "lexing"
  /\ asm = <<>>
  /\ hist = <<>>

\* a round of the loop: the match on self.token.type_, or return Err
Tok_step ==
  /\ phase = "lexing"
  /\ peek_char(drv) # NoChar
  /\ drv' = tokenize_step(drv, peek_char(drv))
  /\ phase' = IF drv'.err THEN "err" ELSE "lexing"
  /\ UNCHANGED <<fstack, tokens, ast, asm, hist>>

\* peek_char is None: break, the Eof token, Ok(&self.tokens)
Tok_end ==
  /\ phase = "lexing"
  /\ peek_char(drv) = NoChar
  /\ drv' = tokenize_end(drv)
  /\ tokens' = drv'.tokens
  /\ phase' = "ok"
  /\ UNCHANGED <<fstack, ast, asm, hist>>

NextTok == Tok_step \/ Tok_end

SpecTok == InitTok /\ [][NextTok]_vars

\* tokenize is one loop that runs until it returns: a round that can be
\* made is made
SpecTokLive == SpecTok /\ WF_vars(NextTok)

\* the lexemes of a token list, one behind the other
RECURSIVE Lexemes(_)
Lexemes(ts) == IF ts = <<>> THEN <<>> ELSE Head(ts).text \o Lexemes(Tail(ts))

\* the characters of a text from offset i on that are in no // comment;
\* mode is "code", "str" inside a string literal, "comment" inside a comment
RECURSIVE Uncommented(_, _, _)
Uncommented(text, i, mode) ==
  IF i >= Len(text) THEN <<>>
  ELSE CASE mode = "comment" ->
              Uncommented(text, i + 1, IF text[i + 1] = "\n" THEN "code" ELSE "comment")
         [] mode = "str" ->
              <<text[i + 1]>>
                \o Uncommented(text, i + 1, IF text[i + 1] = "'" THEN "code" ELSE "str")
         [] mode = "code" /\ text[i + 1] = "/" /\ i + 1 < Len(text) /\ text[i + 2] = "/" ->
              Uncommented(text, i + 2, "comment")
         [] OTHER ->
              <<text[i + 1]>>
                \o Uncommented(text, i + 1, IF text[i + 1] = "'" THEN "str" ELSE "code")

NotSpace(c) == c \notin {" ", "\t", "\n"}

IsEof(t) == t.type_ = "Eof"

\* C11: where tokenize returns Ok the list ends with its one Eof token,
\* and the lexemes of the tokens, one behind the other, hold every
\* character of the source that is no whitespace and in no comment, in
\* the order of the source.
C11_LexemesCoverSource ==
  phase = "ok" =>
    /\ IsEof(Last(tokens))
    /\ Len(SelectSeq(tokens, IsEof)) = 1
    /\ SelectSeq(Lexemes(tokens), NotSpace)
         = SelectSeq(Uncommented(drv.text, 0, "code"), NotSpace)

\* [0-9]+(\.[0-9]+)?
IsNumber(s) ==
  /\ Len(s) >= 1
  /\ \A i \in 1..Len(s) : s[i] \in DigitChars \cup {"."}
  /\ s[1] \in DigitChars /\ s[Len(s)] \in DigitChars
  /\ Cardinality({ i \in 1..Len(s) : s[i] = "." }) <= 1

\* C12: the lexeme of every Num token is digits, or digits, one "." and
\* digits.
C12_NumLexeme ==
  \A i \in 1..Len(drv.tokens) :
    drv.tokens[i].type_ = "Num" => IsNumber(drv.tokens[i].text)

\* tokenize has returned
Returned == phase \in {"ok", "err"}

\* a round of the loop consumes, or commits the Sym or Num token under
\* construction and leaves none, or returns Err; from no token under
\* construction it consumes or returns Err
Round ==
  \/ drv'.pos > drv.pos
  \/ drv'.err /\ phase' = "err"
  \/ /\ drv.token.type_ \in {"Sym", "Num"}
     /\ drv'.token.type_ = "Empty"
     /\ Len(drv'.tokens) = Len(drv.tokens) + 1

\* C28: every round of the loop of tokenize consumes at least one
\* character, or commits the token under construction and leaves none, and
\* from there the next round consumes or returns Err; so tokenize returns,
\* with Err or with a list that ends in Eof.
C28_Terminates ==
  /\ [][phase' = "lexing" \/ phase' = "err" => Round]_vars
  /\ [][phase' = "ok" => IsEof(Last(tokens'))]_vars
  /\ <>Returned

\* tokenize has returned Ok on a = 1; after a round that committed the Sym
\* and one that committed the Num without consuming
C28_Witness ==
  /\ phase = "ok"
  /\ drv.text = <<"a", "=", "1", ";">>
  /\ Len(tokens) = 5
  /\ tokens[1] = Sym(<<"a">>) /\ tokens[3] = Num(<<"1">>)
  /\ IsEof(tokens[5])

-----------------------------------------------------------------------------
(* Precedence of the operators in the trees the parser returns.             *)

\* the precedence layer of a binary operator token, or the lowest
Rank(op) ==
  CASE op = "OpOr" -> 0
    [] op = "OpAnd" -> 1
    [] op \in {"OpLs", "OpGt", "OpGtEq", "OpLsEq", "OpEq", "OpNotEq"} -> 2
    [] op \in {"OpPlus", "OpMinus"} -> 3
    [] op \in {"OpMul", "OpDiv", "OpMod"} -> 4

\* a op1 b op2 c with the operator of the higher layer inside
Nested(op1, op2) ==
  IF Rank(op1) < Rank(op2) THEN RightAssoc(op1, op2) ELSE LeftAssoc(op1, op2)

\* u a op b with the unary operator inside
UnaryInside(u, op) ==
  Bin(op, [type_ |-> NT_Op(u), body |-> <<Leaf(1)>>], Leaf(2))

IsUnaryChainOf(toks, u, op) ==
  \E ctx \in Contexts : toks = InContext(ctx, UnaryChain(u, op))

\* the parser has run on a op1 b op2 c and returned a tree with the
\* operator of the higher layer inside
ParsedNested(op1, op2) ==
  (phase # "source" /\ IsChainOf(tokens, <<op1, op2>>))
    => (phase = "parsed" /\ HasSubtree(ast, Nested(op1, op2)))

\* the parser has run on u a op b and returned a tree with the unary
\* operator inside
ParsedUnaryInside(u, op) ==
  (phase # "source" /\ IsUnaryChainOf(tokens, u, op))
    => (phase = "parsed" /\ HasSubtree(ast, UnaryInside(u, op)))

\* C22 as claimed: for two binary operators of different layers of
\* or < and < comparison < additive < multiplicative, a op1 b op2 c parses
\* with the operator of the higher layer inside, and a unary operator binds
\* tighter than every binary operator.
C22_PrecedenceWithOr ==
  /\ \A op1, op2 \in BinOpTokens : Rank(op1) # Rank(op2) => ParsedNested(op1, op2)
  /\ \A u \in UnaryOpTokens, op \in BinOpTokens : ParsedUnaryInside(u, op)

\* C22: for two binary operators of different layers of and < comparison
\* < additive < multiplicative, a op1 b op2 c parses with the operator of
\* the higher layer inside, and a unary operator binds tighter than every
\* one of these; an expression with || in it is not parsed at all.
C22_Precedence ==
  /\ \A op1, op2 \in BinOpTokens \ {"OpOr"} :
       Rank(op1) # Rank(op2) => ParsedNested(op1, op2)
  /\ \A u \in UnaryOpTokens, op \in BinOpTokens \ {"OpOr"} : ParsedUnaryInside(u, op)
  /\ \A op1, op2 \in BinOpTokens :
       (phase # "source" /\ "OpOr" \in {op1, op2} /\ IsChainOf(tokens, <<op1, op2>>))
         => phase = "parse_error"

\* a * b + c parsed to Add(Mul(a, b), c)
C22_Witness ==
  /\ phase = "parsed"
  /\ IsChainOf(tokens, <<"OpMul", "OpPlus">>)
  /\ HasSubtree(ast, Bin("OpPlus", Bin("OpMul", Leaf(1), Leaf(2)), Leaf(3)))

-----------------------------------------------------------------------------
(* Claims about names, calls and the simulated depth in the code generator. *)

\* the names of the Symbol nodes of the program
SymbolsOf ==
  { NodeAt(ast, p).type_.s : p \in { q \in PathsOf(ast) : TagAt(q) = "Symbol" } }

\* the names a var statement declares, the formals, and the names that are
\* the target of an assignment, anywhere in the program
DeclaredNames ==
  { Child(NodeAt(ast, p), 0).type_.s
    : p \in { q \in PathsOf(ast) :
                /\ TagAt(q) \in {"StmtVar", "Assign"}
                /\ IsSymbol(Child(NodeAt(ast, q), 0)) } }
    \cup UNION { Formals(f) : f \in FnPaths }

\* C21 as claimed: the code generator panics on a name exactly when
\* find_var does not resolve it, emits nothing after that, and never does
\* so in a program whose names are all declared by var, formals or targets
\* of an assignment.
C21_DeclaredResolves ==
  /\ \A i \in Events("no_var") :
       /\ phase = "abort"
       /\ i = Len(hist)
       /\ Len(asm.file) = hist[i].a
       /\ hist[i].t # STD
  /\ SymbolsOf \subseteq DeclaredNames \cup {STD} => Events("no_var") = {}

\* the return statements around the node at p
ReturnsAround(p) ==
  { r \in PathsOf(ast) : IsProperPrefix(r, p) /\ TagAt(r) = "StmtReturn" }

\* C26: the stack of simulated depths is never empty; a statement and a
\* value leave it as long as they found it and change its top counter
\* alone, so the counters of the enclosing functions stay as they are
\* while a function body is compiled; it holds one counter for the top
\* level and one more for every function body and every return statement
\* around the code compiled; a compile that completes ends with one
\* counter.
C26_SpNested ==
  /\ \A i \in Events("sp_stack") :
       /\ Len(hist[i].a) >= 1
       /\ Len(hist[i].b) = Len(hist[i].a)
       /\ Front(hist[i].b) = Front(hist[i].a)
       /\ Len(hist[i].a) = 1 + Cardinality(FnsAround(hist[i].path))
                              + Cardinality(ReturnsAround(hist[i].path))
  /\ phase \in {"compiled", "abort"} => Len(asm.sp) >= 1
  /\ Compiled => Len(asm.sp) = 1

\* a return statement inside a function literal inside another compiled:
\* three counters while its value is compiled, one at the end
C26_Witness ==
  /\ Compiled
  /\ Len(asm.sp) = 1
  /\ \E i \in Events("sp_stack") :
       /\ hist[i].t = "StmtReturn"
       /\ Len(hist[i].a) = 2
       /\ \E j \in Events("sp_stack") :
            /\ hist[j].t = "value"
            /\ IsProperPrefix(hist[i].path, hist[j].path)
            /\ Len(hist[j].a) = 3

\* C27: at every name the code generator resolves, the simulated depth is
\* at least the frame offset find_var returned, so the operand of the Take
\* is their difference and no wrap of it.
C27_TakeInRange ==
  \A i \in Events("take") : hist[i].a >= hist[i].b

\* a global resolved two frames up at the depth 2, in the return statement
\* of a function literal inside another
C27_Witness ==
  /\ Compiled
  /\ \E i \in Events("take") :
       /\ hist[i].b = 2 /\ hist[i].a = 2
       /\ ReturnsAround(hist[i].path) # {}
       /\ Cardinality(FnsAround(hist[i].path)) = 2

\* C30: after build_frame_stack no frame holds a name twice.
C30_UniqueSlots ==
  Analyzed =>
    \A f \in 0..(Len(fstack.frames) - 1) :
      \A i, j \in 1..Len(Slots(fstack, f)) :
        Slots(fstack, f)[i] = Slots(fstack, f)[j] => i = j

\* the call statements and the call values whose callee is a Symbol, a
\* Member or an Index node, as the offset behind their Call opcode
IsReference(node) == node.type_.tag \in {"Symbol", "Member", "Index"}

CallEnds ==
  { hist[i].b - 5 : i \in { j \in SpansOf("Call") :
                              IsReference(Child(NodeAt(ast, hist[j].path), 0)) } }
    \cup { hist[i].b : i \in { j \in Events("value") :
                                 /\ TagAt(hist[j].path) = "Call"
                                 /\ IsReference(Child(NodeAt(ast, hist[j].path), 0)) } }

\* C25: the code of a callee that is a Symbol, a Member or an Index node
\* is followed by Load 0 before the Call opcode.
C25_CalleeLoaded ==
  \A e \in CallEnds :
    /\ Byte(e - 1) = OpCode.Call
    /\ Byte(e - 6) = OpCode.Load
    /\ Word(asm.file, e - 6) = 0

=============================================================================
